---------------------------- MODULE Spec2Model ----------------------------
(***************************************************************************)
(* Experiment description files of ibllib (ibllib/io/session_params.py):   *)
(* the merge of two descriptions (merge_params), the schema patch          *)
(* (_patch_file), reading a description (read_params) and the aggregation *)
(* of device stubs into the canonical description under a file lock        *)
(* (aggregate_device).                                                     *)
(*                                                                         *)
(* A YAML value is a tagged record: List(<<..>>), Dict(f) with f a         *)
(* function on strings, Str("..").  The tag t is what isinstance() tests.  *)
(* A description is a function from its top-level keys to such values.     *)
(***************************************************************************)
EXTENDS FiniteSets, Integers, Sequences, TLC

List(s) == [t |-> "list", v |-> s]
Dict(f) == [t |-> "dict", v |-> f]
Str(x) == [t |-> "str", v |-> x]

\* Longest list of a description that is enumerated as an input.
MaxLen == 2

SPEC_VERSION == "1.0.0"

Range(s) == {s[i] : i \in DOMAIN s}

\* The empty description {} (a function with no key).
EmptyDoc == [k \in {} |-> Str("")]

\* Python's None, as returned by read_params for a missing file.
None == [None |-> TRUE]

\* Python truthiness of `data`: None and {} are false.
Truthy(d) == d # None /\ DOMAIN d # {}

---------------------------------------------------------------------------
(* Input values, by key.                                                   *)

cfg(c) == Dict([collection |-> Str(c)])

\* List entries are tagged values too: strings here, single-key maps in tasks.
Entries == {Str("Imaging"), Str("Injection")}

\* All lists over S of length at most MaxLen (repeated entries included).
Lists(S) == UNION {[1..n -> S] : n \in 0..MaxLen}

SyncNidq == Dict([nidq |-> cfg("raw_ephys_data")])
SyncBpod == Dict([bpod |-> cfg("raw_behavior_data")])
SyncVals == {SyncNidq, SyncBpod}

CamLeft == Dict([cameras |-> Dict([left |-> cfg("raw_video_data")])])
CamRight == Dict([cameras |-> Dict([right |-> cfg("raw_video_data")])])
Mic == Dict([microphone |-> Dict([microphone |-> cfg("raw_behavior_data")])])
CamLeftMic == Dict([cameras |-> Dict([left |-> cfg("raw_video_data")]),
                    microphone |-> Dict([microphone |-> cfg("raw_behavior_data")])])
DevicesVals == {CamLeft, CamRight, Mic, CamLeftMic}

TaskFoo == Dict([fooChoiceWorld |-> cfg("raw_task_data_00")])
TaskBar == Dict([barChoiceWorld |-> cfg("raw_task_data_01")])
TaskEntries == {TaskFoo, TaskBar}

SubjectVals == {Str("KS014"), Str("ZM_1897")}

ListKeys == {"procedures", "projects", "tasks"}
Keys == {"sync", "devices", "subject"} \cup ListKeys

\* The values a key takes in the enumerated descriptions.
ValsOf(k) ==
    CASE k = "sync" -> SyncVals
      [] k = "devices" -> DevicesVals
      [] k = "tasks" -> {List(s) : s \in Lists(TaskEntries)}
      [] k = "procedures" -> {List(s) : s \in Lists(Entries)}
      [] k = "projects" -> {List(<<>>), List(<<Str("ibl_neuropixel_brainwide_01")>>)}
      [] k = "subject" -> SubjectVals

\* Descriptions with no, one or two top-level keys.
Docs ==
    UNION {{d \in [{k1, k2} -> UNION {ValsOf(k) : k \in {k1, k2}}] :
                \A k \in {k1, k2} : d[k] \in ValsOf(k)} : k1 \in Keys, k2 \in Keys}
    \cup {EmptyDoc}

---------------------------------------------------------------------------
(* merge_params                                                            *)

\* d with key k set to val (a[k] = val).
Put(d, k, val) == [x \in DOMAIN d \cup {k} |-> IF x = k THEN val ELSE d[x]]

\* Iteration order of a description's keys (`for k in b`).
KeyOrder == <<"devices", "procedures", "projects", "subject", "sync", "tasks", "version">>
KeySeq(d) == SelectSeq(KeyOrder, LAMBDA k : k \in DOMAIN d)

\* All orders in which the elements of the set S can be listed.
Perms(S) == {f \in [1..Cardinality(S) -> S] : \A i, j \in DOMAIN f : f[i] = f[j] => i = j}

\* list(S) for a Python set S: its elements, in the iteration order ord.
SetToList(S, ord) == SelectSeq(ord, LAMBDA e : e \in S)

\* prev = list(a.get(k, []))
Prev(a, k) == IF k \in DOMAIN a THEN a[k].v ELSE <<>>

\* As SyncAssertFails, with the assertion left out.
SyncAssertNever(a, b, k) == FALSE

\* As SyncAssertFails, with the assertion written `assert k not in a`.
SyncAssertNoEquality(a, b, k) == k = "sync" /\ k \in DOMAIN a

\* The assertion on the sync key fails.
SyncAssertFails(a, b, k) == k = "sync" /\ ~(k \notin DOMAIN a \/ a[k] = b[k])

\* As ToAdd, with no list deduplicated: to_add = b[k] for every key.
ToAddNeverSet(a, b, k, ord) == b[k].v

\* As ToAdd, with tasks deduplicated like every other list.
ToAddAlwaysSet(a, b, k, ord) ==
    SetToList(Range(b[k].v) \ Range(Prev(a, k)), ord)

\* to_add = b[k] if k == 'tasks' else set(b[k]) - set(prev)
ToAdd(a, b, k, ord) ==
    IF k = "tasks" THEN b[k].v
    ELSE SetToList(Range(b[k].v) \ Range(Prev(a, k)), ord)

\* As MergeKey, with a scalar of a kept when a already has the key.
MergeKeyFirstWins(a, b, k, ord) ==
    IF b[k].t = "list"
    THEN Put(a, k, List(Prev(a, k) \o ToAdd(a, b, k, ord)))
    ELSE IF b[k].t = "dict"
    THEN LET av == IF k \in DOMAIN a THEN a[k].v ELSE EmptyDoc
             bv == b[k].v
         IN Put(a, k, Dict([s \in DOMAIN av \cup DOMAIN bv |->
                                IF s \in DOMAIN bv THEN bv[s] ELSE av[s]]))
    ELSE IF k \in DOMAIN a THEN a ELSE Put(a, k, b[k])

\* The body of the loop for one key k of b, the assertion aside.
MergeKey(a, b, k, ord) ==
    IF b[k].t = "list"
    THEN Put(a, k, List(Prev(a, k) \o ToAdd(a, b, k, ord)))
    ELSE IF b[k].t = "dict"
    THEN LET av == IF k \in DOMAIN a THEN a[k].v ELSE EmptyDoc
             bv == b[k].v
         IN Put(a, k, Dict([s \in DOMAIN av \cup DOMAIN bv |->
                                IF s \in DOMAIN bv THEN bv[s] ELSE av[s]]))
    ELSE Put(a, k, b[k])

RECURSIVE MergeLoop(_, _, _, _)
MergeLoop(a, b, ks, ord) ==
    IF ks = <<>> THEN [err |-> FALSE, doc |-> a]
    ELSE IF SyncAssertFails(a, b, Head(ks)) THEN [err |-> TRUE, doc |-> a]
    ELSE MergeLoop(MergeKey(a, b, Head(ks), ord), b, Tail(ks), ord)

\* merge_params(a, b): err is the AssertionError 'multiple sync fields
\* defined'; doc is a as the call leaves it.
merge_params(a, b, ord) == MergeLoop(a, b, KeySeq(b), ord)

\* The entries whose order in the result is that of a Python set.
SetEntries(a, b) ==
    UNION {Range(b[k].v) \ Range(Prev(a, k)) :
               k \in {x \in DOMAIN b : b[x].t = "list" /\ x # "tasks"}}

---------------------------------------------------------------------------
(* Files, _patch_file and read_params                                      *)

\* A file on disk: missing, present with no content, or holding the YAML
\* text of a description.
Absent == [st |-> "absent"]
Empty == [st |-> "empty"]

\* yaml.safe_dump(data, fp) into a file opened for writing.
yaml_safe_dump(data) == [st |-> "doc", doc |-> data]

\* yaml.safe_load(fp): None for a file without content.
yaml_safe_load(f) == IF f.st = "doc" THEN f.doc ELSE None

\* version.parse(v), as a rank that orders the versions in use.
VersionRank(v) ==
    CASE v = "0" -> 0
      [] v = "0.1.0" -> 1
      [] v = "0.9.0" -> 2
      [] v = "1.0.0" -> 3
      [] v = "2.0.0" -> 4

\* A map whose keys are iterated in the order ks, the order in which the
\* file lists them: the tasks map of a legacy description.
TasksMap(f, ks) == [t |-> "dict", v |-> f, ks |-> ks]

\* As TasksAsList, over sorted(data['tasks'].items()).
TasksAsListSorted(tasks) ==
    LET ks == SelectSeq(<<"barChoiceWorld", "fooChoiceWorld">>,
                        LAMBDA k : k \in DOMAIN tasks.v)
    IN List([i \in 1..Len(ks) |-> Dict([x \in {ks[i]} |-> tasks.v[x]])])

\* [{k: v} for k, v in data['tasks'].copy().items()]
TasksAsList(tasks) ==
    List([i \in 1..Len(tasks.ks) |->
              Dict([x \in {tasks.ks[i]} |-> tasks.v[x]])])

\* As _patch_file, a more recent description returned as it is (a return
\* after the warning).
_patch_file_NewerLeftAlone(data) ==
    LET v == IF "version" \in DOMAIN data THEN data["version"].v ELSE "0"
    IN IF Truthy(data) /\ v # SPEC_VERSION
       THEN IF VersionRank(v) > VersionRank(SPEC_VERSION) THEN data
            ELSE LET d1 == IF /\ VersionRank(v) <= VersionRank("0.1.0")
                              /\ "tasks" \in DOMAIN data
                              /\ data["tasks"].t = "dict"
                           THEN Put(data, "tasks", TasksAsList(data["tasks"]))
                           ELSE data
                 IN Put(d1, "version", Str(SPEC_VERSION))
       ELSE data

\* As _patch_file, a description brought forward one release per call:
\* one of version '0' (or none) is stamped '0.1.0', any other SPEC_VERSION.
_patch_file_OneRelease(data) ==
    LET v == IF "version" \in DOMAIN data THEN data["version"].v ELSE "0"
    IN IF Truthy(data) /\ v # SPEC_VERSION
       THEN LET d1 == IF VersionRank(v) > VersionRank(SPEC_VERSION) THEN data
                      ELSE IF /\ VersionRank(v) <= VersionRank("0.1.0")
                              /\ "tasks" \in DOMAIN data
                              /\ data["tasks"].t = "dict"
                      THEN Put(data, "tasks", TasksAsList(data["tasks"]))
                      ELSE data
            IN Put(d1, "version",
                   Str(IF v = "0" THEN "0.1.0" ELSE SPEC_VERSION))
       ELSE data

_patch_file(data) ==
    LET v == IF "version" \in DOMAIN data THEN data["version"].v ELSE "0"
    IN IF Truthy(data) /\ v # SPEC_VERSION
       THEN LET d1 == IF VersionRank(v) > VersionRank(SPEC_VERSION) THEN data
                      ELSE IF /\ VersionRank(v) <= VersionRank("0.1.0")
                              /\ "tasks" \in DOMAIN data
                              /\ data["tasks"].t = "dict"
                      THEN Put(data, "tasks", TasksAsList(data["tasks"]))
                      ELSE data
            IN Put(d1, "version", Str(SPEC_VERSION))
       ELSE data

\* read_params(path) for a file path: None when the file is missing, else the
\* patched content, {} standing for a file that holds nothing.
read_params(f) ==
    IF f.st = "absent" THEN None
    ELSE LET loaded == yaml_safe_load(f)
         IN _patch_file(IF Truthy(loaded) THEN loaded ELSE EmptyDoc)

\* sync_keys of get_sync_label: the labels under the 'sync' key.
sync_keys(sess_params) ==
    IF Truthy(sess_params) /\ "sync" \in DOMAIN sess_params
    THEN DOMAIN sess_params["sync"].v
    ELSE {}

---------------------------------------------------------------------------
(* State                                                                   *)

\* Number of processes that call aggregate_device on the same canonical path.
NProcs == 2
Procs == 1..NProcs

VARIABLES
    arg_a,        \* merge_params: the description a as passed
    arg_b,        \* merge_params: the description b
    merged,       \* merge_params: no call yet, or the outcome of the call
    acq_file,     \* the canonical file file_acquisition_description
    lockfile,     \* TRUE iff the lock file of the canonical file exists
    stub_file,    \* stub_file[p]: the device file passed by process p
    stub_folder,  \* TRUE iff the _devices folder exists
    pc,           \* pc[p]: where process p is in aggregate_device
    data_device,  \* data_device[p]: the local data_device
    acq_desc,     \* acq_desc[p]: the local acq_desc
    started,      \* the processes in the order they called aggregate_device
    before,       \* the canonical file when the latest call was made
    other_files,  \* the names in the _devices folder that are no device file
    timeout_policy, \* what the deployment wants done when the lock wait times out
    patch_data,   \* _patch_file: the document as first passed
    patched,      \* _patch_file: the results of the successive calls
    get_params,   \* the getters: the description sess_params they are passed
    got,          \* the getters: no call yet, or the latest call and its outcome
    processed,    \* ServerDataHandler: self.processed, file path -> record
    last_call,    \* ServerDataHandler: no call yet, or the latest call
    registered,   \* the artifacts the registry has issued a receipt for
    SDSC_PATCH_PATH,   \* SDSCDataHandler: the quarantine root, as path parts
    task_session_path, \* SDSCDataHandler: self.task.session_path, as path parts
    trees,        \* SDSCDataHandler: the directories that exist
    sdsc_result,  \* SDSCDataHandler: no call yet, or how the latest call ended
    links,        \* SDSCDataHandler: the symlinks that exist, link -> target
    session_path, \* SDSCDataHandler: self.session_path, as path parts
    globus_df,    \* ServerGlobusDataHandler: the datasets getData matches
    local_files,  \* the input files that exist on the local disk
    space_free,   \* the free space of the local disk, in files
    globus_pc,    \* globus_pc[h]: where handler h is in setUp
    local_paths,  \* local_paths[h]: self.local_paths of handler h
    target_paths, \* target_paths[h]: the files of the transfer h has requested
    downloaded,   \* downloaded[h]: the files on disk that a transfer of h put there
    globus_result, \* ServerGlobusDataHandler: the latest step and its outcome
    file_exists,  \* RemoteAwsDataHandler: the exists flag of each file record
    aws_local_paths, \* RemoteAwsDataHandler: self.local_paths
    task_status,  \* RemoteAwsDataHandler: self.task.status
    aws_result,   \* RemoteAwsDataHandler: no call yet, or the latest call
    setup_result  \* setUp and getData of the backends: the latest call

mergeVars == <<arg_a, arg_b, merged>>
aggVars == <<acq_file, lockfile, stub_file, stub_folder, pc, data_device, acq_desc,
             started, before>>
envVars == <<other_files, timeout_policy>>
patchVars == <<patch_data, patched>>
getVars == <<get_params, got>>
serverVars == <<processed, last_call, registered>>
sdscVars == <<SDSC_PATCH_PATH, task_session_path, trees, sdsc_result, links,
              session_path>>
globusVars == <<globus_df, local_files, space_free, globus_pc, local_paths,
                target_paths, downloaded, globus_result>>
awsVars == <<file_exists, aws_local_paths, task_status, aws_result>>
remoteVars == <<globusVars, awsVars, setup_result>>
handlerVars == <<serverVars, sdscVars, remoteVars>>
vars == <<arg_a, arg_b, merged, acq_file, lockfile, stub_file, stub_folder, pc,
          data_device, acq_desc, started, before, other_files, timeout_policy,
          patch_data, patched, get_params, got, processed, last_call, registered,
          SDSC_PATCH_PATH, task_session_path, trees, sdsc_result, links,
          session_path, globus_df, local_files, space_free, globus_pc,
          local_paths, target_paths, downloaded, globus_result, file_exists,
          aws_local_paths, task_status, aws_result, setup_result>>

NotCalled == [called |-> FALSE]

\* No getter is called.
GetIdle == get_params = EmptyDoc /\ got = NotCalled

\* No data handler is in use.
ServerIdle ==
    /\ processed = <<>>
    /\ last_call = NotCalled
    /\ registered = {}
SDSCIdle ==
    /\ SDSC_PATCH_PATH = <<>>
    /\ task_session_path = <<>>
    /\ trees = {}
    /\ sdsc_result = NotCalled
    /\ links = <<>>
    /\ session_path = <<>>

\* The handlers of the tasks that run on one server.
Handlers == {"ephys", "video"}

GlobusIdle ==
    /\ globus_df = {}
    /\ local_files = {}
    /\ space_free = 0
    /\ globus_pc = [h \in Handlers |-> "idle"]
    /\ local_paths = [h \in Handlers |-> <<>>]
    /\ target_paths = [h \in Handlers |-> {}]
    /\ downloaded = [h \in Handlers |-> {}]
    /\ globus_result = NotCalled
AwsIdle ==
    /\ file_exists = <<>>
    /\ aws_local_paths = <<>>
    /\ task_status = 0
    /\ aws_result = NotCalled
RemoteIdle == GlobusIdle /\ AwsIdle /\ setup_result = NotCalled
HandlersIdle == ServerIdle /\ SDSCIdle /\ RemoteIdle

---------------------------------------------------------------------------
(* merge_params applied to every pair of enumerated descriptions.          *)

InitMerge ==
    /\ arg_a \in Docs
    /\ arg_b \in Docs
    /\ merged = NotCalled
    /\ acq_file = Absent
    /\ lockfile = FALSE
    /\ stub_file = [p \in Procs |-> Absent]
    /\ stub_folder = FALSE
    /\ pc = [p \in Procs |-> "returned"]
    /\ data_device = [p \in Procs |-> None]
    /\ acq_desc = [p \in Procs |-> EmptyDoc]
    /\ started = <<>>
    /\ before = Absent
    /\ other_files = {}
    /\ timeout_policy = "delete"
    /\ patch_data = EmptyDoc
    /\ patched = <<>>
    /\ GetIdle
    /\ HandlersIdle

CallMerge ==
    /\ merged = NotCalled
    /\ \E ord \in Perms(SetEntries(arg_a, arg_b)) :
           merged' = [called |-> TRUE, out |-> merge_params(arg_a, arg_b, ord)]
    /\ UNCHANGED <<arg_a, arg_b>>
    /\ UNCHANGED <<aggVars, patchVars, envVars, getVars, handlerVars>>

NextMerge == CallMerge

SpecMerge == InitMerge /\ [][NextMerge]_vars

---------------------------------------------------------------------------
(* _patch_file applied, then applied again to its own result.              *)

\* The versions a description file may carry.
Versions == {"0", "0.1.0", "0.9.0", "1.0.0", "2.0.0"}

\* Legacy tasks maps: protocol -> configuration, the protocols in every
\* order a file can list them.
ProtocolCfg == [fooChoiceWorld |-> cfg("raw_task_data_00"),
                barChoiceWorld |-> cfg("raw_task_data_01")]
OrderedKeys(S) ==
    {ks \in UNION {[1..n -> S] : n \in 0..Cardinality(S)} :
         \A i, j \in DOMAIN ks : ks[i] = ks[j] => i = j}
LegacyTasks ==
    {TasksMap([k \in Range(ks) |-> ProtocolCfg[k]], ks) :
         ks \in OrderedKeys(DOMAIN ProtocolCfg)}

\* Stands for the value of a key that a document does not have.
Missing == [t |-> "missing", v |-> ""]

\* The description with the given version, tasks and subject, Missing for
\* a key it does not have.
PatchDoc(ver, tasks, subject) ==
    LET present == {k \in {"version", "tasks", "subject"} :
                        CASE k = "version" -> ver # Missing
                          [] k = "tasks" -> tasks # Missing
                          [] k = "subject" -> subject # Missing}
    IN [k \in present |-> CASE k = "version" -> ver
                            [] k = "tasks" -> tasks
                            [] k = "subject" -> subject]

\* Documents passed to _patch_file: every version, tasks as a list or as a
\* legacy map, with or without another field; the empty document is the
\* one with no key.
PatchDocs ==
    {PatchDoc(ver, tasks, subject) :
         ver \in {Str(v) : v \in Versions} \cup {Missing},
         tasks \in LegacyTasks \cup {List(<<TaskFoo, TaskBar>>), Missing},
         subject \in {Str("KS014"), Missing}}

InitPatch ==
    /\ patch_data \in PatchDocs
    /\ patched = <<>>
    /\ arg_a = EmptyDoc
    /\ arg_b = EmptyDoc
    /\ merged = NotCalled
    /\ acq_file = Absent
    /\ lockfile = FALSE
    /\ stub_file = [p \in Procs |-> Absent]
    /\ stub_folder = FALSE
    /\ pc = [p \in Procs |-> "returned"]
    /\ data_device = [p \in Procs |-> None]
    /\ acq_desc = [p \in Procs |-> EmptyDoc]
    /\ started = <<>>
    /\ before = Absent
    /\ other_files = {}
    /\ timeout_policy = "delete"
    /\ GetIdle
    /\ HandlersIdle

\* _patch_file(data), data being the document first, the result of the
\* call before afterwards.
CallPatch ==
    /\ Len(patched) < 2
    /\ patched' = Append(patched,
                         _patch_file(IF patched = <<>> THEN patch_data
                                     ELSE patched[Len(patched)]))
    /\ UNCHANGED patch_data
    /\ UNCHANGED <<mergeVars, aggVars, envVars, getVars, handlerVars>>

NextPatch == CallPatch

SpecPatch == InitPatch /\ [][NextPatch]_vars

---------------------------------------------------------------------------
(* get_collections and the task getters                                    *)

\* An integer value, and the value None inside a description or returned.
IntVal(n) == [t |-> "int", v |-> n]
PyNone == [t |-> "none", v |-> ""]

\* A Python set, and a list built by list(set(...)): its elements, in the
\* order the set happens to iterate.
SetOf(S) == [t |-> "set", v |-> S]
ListOfSet(S) == [t |-> "list_of_set", v |-> S]

\* A call that ended with an exception.
Raised(e) == [t |-> "raised", v |-> e]

\* The order in which d.items() lists the keys of a map (the order of the
\* file): one fixed order, the outcomes looked at do not depend on it.
ItemsOrder == <<"devices", "tasks", "cameras", "collection", "protocol_number",
                "left", "fooChoiceWorld", "barChoiceWorld">>
Items(d) == SelectSeq(ItemsOrder, LAMBDA k : k \in DOMAIN d)

\* collection_map: a dict, its keys in insertion order.
EmptyMap == [keys |-> <<>>, val |-> <<>>]

\* The branch of iter_dict for a map with a 'collection': the key is new and
\* takes the collection, or it is known and takes list(set(clist + [c])).
Record(cm, k, c) ==
    IF k \in DOMAIN cm.val
    THEN LET clist == IF cm.val[k].t = "list_of_set" THEN cm.val[k].v
                      ELSE {cm.val[k]}
         IN [keys |-> cm.keys, val |-> Put(cm.val, k, ListOfSet(clist \cup {c}))]
    ELSE [keys |-> Append(cm.keys, k), val |-> Put(cm.val, k, c)]

RECURSIVE iter_dict(_, _)
RECURSIVE iter_items(_, _, _)
RECURSIVE iter_list(_, _)

\* for d in filter(lambda x: isinstance(x, dict), v): iter_dict(d)
iter_list(s, cm) ==
    IF s = <<>> THEN cm
    ELSE iter_list(Tail(s), IF Head(s).t = "dict" THEN iter_dict(Head(s).v, cm)
                            ELSE cm)

\* for k, v in d.items(): a list is walked, a map with a 'collection' is
\* recorded and not entered, any other map is entered.
iter_items(d, ks, cm) ==
    IF ks = <<>> THEN cm
    ELSE LET k == Head(ks)
             v == d[k]
         IN iter_items(d, Tail(ks),
                IF v.t = "list" THEN iter_list(v.v, cm)
                ELSE IF v.t = "dict" /\ "collection" \in DOMAIN v.v
                THEN Record(cm, k, v.v["collection"])
                ELSE IF v.t = "dict" THEN iter_dict(v.v, cm)
                ELSE cm)

iter_dict(d, cm) == iter_items(d, Items(d), cm)

\* flatten(collection_map.values()), as a set.
flatten(vals) == UNION {IF x.t = "list_of_set" THEN x.v ELSE {x} : x \in vals}

get_collections(sess_params, flat) ==
    LET collection_map == iter_dict(sess_params, EmptyMap)
    IN IF flat
       THEN SetOf(flatten({collection_map.val[k] : k \in DOMAIN collection_map.val}))
       ELSE collection_map

\* (x or {}).get(key) for x a map or None.
GetOr(x, key) == IF x.t = "dict" /\ key \in DOMAIN x.v THEN x.v[key] ELSE PyNone

\* next(iter(x.values()), {}): the value of the first key of a task.
FirstValue(x) == IF DOMAIN x.v = {} THEN Dict(<<>>) ELSE x.v[Items(x.v)[1]]

\* Python's truth value of a returned or stored value: None, 0 and the
\* empty list and set are false.
Falsy(x) ==
    \/ x = PyNone
    \/ x = IntVal(0)
    \/ x.t = "list" /\ x.v = <<>>
    \/ x.t = "set" /\ x.v = {}

\* x or None
OrNone(x) == IF Falsy(x) THEN PyNone ELSE x

\* int(number) if isinstance(number, str) else number
ParseInt(s) == CASE s = "0" -> 0 [] s = "1" -> 1
ToInt(number) == IF number.t = "str" THEN IntVal(ParseInt(number.v)) ELSE number

\* sess_params.get('tasks', [])
TasksOf(sess_params) ==
    IF "tasks" \in DOMAIN sess_params THEN sess_params["tasks"].v ELSE <<>>

\* next((x for x in protocols if task_protocol in x), None), as the list of
\* the tasks that have the protocol: empty for None.
TasksNamed(sess_params, task_protocol) ==
    SelectSeq(TasksOf(sess_params), LAMBDA x : task_protocol.v \in DOMAIN x.v)

get_task_protocol(sess_params, task_collection) ==
    LET collections ==
            get_collections([tasks |-> IF "tasks" \in DOMAIN sess_params
                                       THEN sess_params["tasks"] ELSE PyNone],
                            FALSE)
        hits == SelectSeq(collections.keys,
                          LAMBDA k : collections.val[k] = task_collection)
    IN IF task_collection = PyNone
       THEN IF collections.keys = <<>> THEN PyNone
            ELSE SetOf({Str(k) : k \in Range(collections.keys)})
       ELSE IF hits = <<>> THEN PyNone ELSE Str(hits[1])

\* As get_task_collection, without the shortcut for a single collection:
\* the set of collections is returned whatever its size.
get_task_collection_AlwaysSet(sess_params, task_protocol) ==
    LET protocols == TasksOf(sess_params)
        named == TasksNamed(sess_params, task_protocol)
    IN IF task_protocol # PyNone
       THEN IF named = <<>> THEN Raised("AttributeError")
            ELSE GetOr(named[1].v[task_protocol.v], "collection")
       ELSE IF \E i \in DOMAIN protocols : FirstValue(protocols[i]) = PyNone
            THEN Raised("AttributeError")
            ELSE OrNone(SetOf({GetOr(FirstValue(protocols[i]), "collection") :
                                   i \in DOMAIN protocols} \ {PyNone}))

\* task is None when no task has the protocol, and task.get raises; with no
\* protocol, None.get raises for a task whose value is None.
get_task_collection(sess_params, task_protocol) ==
    LET protocols == TasksOf(sess_params)
        named == TasksNamed(sess_params, task_protocol)
    IN IF task_protocol # PyNone
       THEN IF named = <<>> THEN Raised("AttributeError")
            ELSE GetOr(named[1].v[task_protocol.v], "collection")
       ELSE IF \E i \in DOMAIN protocols : FirstValue(protocols[i]) = PyNone
            THEN Raised("AttributeError")
            ELSE LET cset == {GetOr(FirstValue(protocols[i]), "collection") :
                                  i \in DOMAIN protocols} \ {PyNone}
                 IN OrNone(IF Cardinality(cset) = 1 THEN CHOOSE c \in cset : TRUE
                           ELSE SetOf(cset))

get_task_protocol_number(sess_params, task_protocol) ==
    LET protocols == TasksOf(sess_params)
        named == TasksNamed(sess_params, task_protocol)
    IN IF task_protocol # PyNone
       THEN IF named = <<>> THEN Raised("AttributeError")
            ELSE ToInt(GetOr(named[1].v[task_protocol.v], "protocol_number"))
       ELSE IF \E i \in DOMAIN protocols : FirstValue(protocols[i]) = PyNone
            THEN Raised("AttributeError")
            ELSE LET found == [i \in DOMAIN protocols |->
                                   GetOr(FirstValue(protocols[i]), "protocol_number")]
                     kept == SelectSeq(found, LAMBDA n : ~Falsy(n))
                     numbers == [i \in DOMAIN kept |-> ToInt(kept[i])]
                 IN OrNone(IF Len(numbers) = 1 THEN numbers[1] ELSE List(numbers))

\* The descriptions the getters are given.
TaskCfg(collection, number) ==
    LET present == {k \in {"collection", "protocol_number"} :
                        CASE k = "collection" -> collection # Missing
                          [] k = "protocol_number" -> number # Missing}
    IN Dict([k \in present |-> CASE k = "collection" -> collection
                                 [] k = "protocol_number" -> number])
TaskCfgs ==
    {TaskCfg(c, n) :
         c \in {Str("raw_task_data_00"), Str("raw_task_data_01"), Missing},
         n \in {IntVal(0), IntVal(1), Str("0"), Missing}}
    \cup {PyNone}
GetTaskEntries ==
    {Dict([x \in {p} |-> c]) : p \in {"fooChoiceWorld", "barChoiceWorld"},
                                c \in TaskCfgs}

DevicesFlat == Dict([cameras |-> cfg("raw_video_data")])
DevicesNested ==
    Dict([cameras |-> Dict([collection |-> Str("raw_video_data"),
                            left |-> cfg("raw_video_left")])])

GetDoc(devices, tasks) ==
    LET present == {k \in {"devices", "tasks"} :
                        CASE k = "devices" -> devices # Missing
                          [] k = "tasks" -> tasks # Missing}
    IN [k \in present |-> CASE k = "devices" -> devices
                            [] k = "tasks" -> tasks]
GetDocs ==
    {GetDoc(devices, tasks) :
         devices \in {DevicesFlat, CamLeft, DevicesNested, Missing},
         tasks \in {List(s) : s \in Lists(GetTaskEntries)} \cup {Missing}}

\* What the getters are asked for.
CollectionArgs == {Str("raw_task_data_00"), Str("raw_task_data_01"), PyNone}
ProtocolArgs == {Str("fooChoiceWorld"), Str("barChoiceWorld"),
                 Str("bazChoiceWorld"), PyNone}

DescriptionIdle ==
    /\ arg_a = EmptyDoc
    /\ arg_b = EmptyDoc
    /\ merged = NotCalled
    /\ acq_file = Absent
    /\ lockfile = FALSE
    /\ stub_file = [p \in Procs |-> Absent]
    /\ stub_folder = FALSE
    /\ pc = [p \in Procs |-> "returned"]
    /\ data_device = [p \in Procs |-> None]
    /\ acq_desc = [p \in Procs |-> EmptyDoc]
    /\ started = <<>>
    /\ before = Absent
    /\ other_files = {}
    /\ timeout_policy = "delete"
    /\ patch_data = EmptyDoc
    /\ patched = <<>>

descriptionVars == <<mergeVars, aggVars, envVars, patchVars>>

InitGet ==
    /\ get_params \in GetDocs
    /\ got = NotCalled
    /\ DescriptionIdle
    /\ HandlersIdle

CallGetCollections ==
    /\ got = NotCalled
    /\ \E flat \in BOOLEAN :
           got' = [called |-> TRUE, fn |-> "get_collections", arg |-> flat,
                   out |-> get_collections(get_params, flat)]
    /\ UNCHANGED <<get_params, descriptionVars, handlerVars>>

CallGetTaskProtocol ==
    /\ got = NotCalled
    /\ \E task_collection \in CollectionArgs :
           got' = [called |-> TRUE, fn |-> "get_task_protocol",
                   arg |-> task_collection,
                   out |-> get_task_protocol(get_params, task_collection)]
    /\ UNCHANGED <<get_params, descriptionVars, handlerVars>>

CallGetTaskCollection ==
    /\ got = NotCalled
    /\ \E task_protocol \in ProtocolArgs :
           got' = [called |-> TRUE, fn |-> "get_task_collection",
                   arg |-> task_protocol,
                   out |-> get_task_collection(get_params, task_protocol)]
    /\ UNCHANGED <<get_params, descriptionVars, handlerVars>>

CallGetTaskProtocolNumber ==
    /\ got = NotCalled
    /\ \E task_protocol \in ProtocolArgs :
           got' = [called |-> TRUE, fn |-> "get_task_protocol_number",
                   arg |-> task_protocol,
                   out |-> get_task_protocol_number(get_params, task_protocol)]
    /\ UNCHANGED <<get_params, descriptionVars, handlerVars>>

NextGet ==
    \/ CallGetCollections
    \/ CallGetTaskProtocol
    \/ CallGetTaskCollection
    \/ CallGetTaskProtocolNumber

SpecGet == InitGet /\ [][NextGet]_vars

---------------------------------------------------------------------------
(* aggregate_device, one step at a time, by several processes.             *)

\* Device files the processes are given.
StubSyncNidq == [sync |-> SyncNidq, procedures |-> List(<<Str("Imaging")>>),
                 version |-> Str(SPEC_VERSION)]
StubSyncBpod == [sync |-> SyncBpod, tasks |-> List(<<TaskFoo>>),
                 subject |-> Str("KS014")]
StubCamLeft == [devices |-> CamLeft, procedures |-> List(<<Str("Injection")>>),
                subject |-> Str("ZM_1897"), version |-> Str("0.9.0")]
StubCamRight == [devices |-> CamRight, tasks |-> List(<<TaskBar>>),
                 projects |-> List(<<Str("ibl_neuropixel_brainwide_01")>>)]
StubFiles == {yaml_safe_dump(d) : d \in {StubSyncNidq, StubSyncBpod, StubCamLeft}}

\* The device files of the calls made one at a time.
StubFilesSeq ==
    StubFiles \cup {yaml_safe_dump(StubCamRight), Empty, Absent}

\* Names that something other than aggregate_device may have left in the
\* _devices folder, and those of them that the pattern '*.*' matches.
OtherNames == {"README", "notes.txt"}
GlobDotted(names) == names \cap {"notes.txt"}

\* What can be asked of a lock whose wait timed out: delete the lock file
\* and go on, or raise.
TimeoutActions == {"delete", "raise"}

\* No canonical file yet, no lock file, every process about to call.
Init ==
    /\ arg_a = EmptyDoc
    /\ arg_b = EmptyDoc
    /\ merged = NotCalled
    /\ acq_file = Absent
    /\ lockfile = FALSE
    /\ stub_file \in [Procs -> StubFiles]
    /\ stub_folder = TRUE
    /\ pc = [p \in Procs |-> "start"]
    /\ data_device = [p \in Procs |-> None]
    /\ acq_desc = [p \in Procs |-> EmptyDoc]
    /\ started = <<>>
    /\ before = Absent
    /\ other_files = {}
    /\ timeout_policy = "delete"
    /\ patch_data = EmptyDoc
    /\ patched = <<>>
    /\ GetIdle
    /\ HandlersIdle

\* As ReadStub, without the test of data_device: the call goes on to the
\* lock whatever the device file holds.
ReadStubNoTest(p) ==
    /\ pc[p] = "start"
    /\ data_device' = [data_device EXCEPT ![p] = read_params(stub_file[p])]
    /\ pc' = [pc EXCEPT ![p] = "lock"]
    /\ started' = Append(started, p)
    /\ before' = acq_file
    /\ UNCHANGED <<acq_file, lockfile, stub_file, stub_folder, acq_desc>>
    /\ UNCHANGED <<mergeVars, patchVars, envVars, getVars, handlerVars>>

\* data_device = read_params(file_device); an empty or missing device file
\* ends the call.
ReadStub(p) ==
    /\ pc[p] = "start"
    /\ data_device' = [data_device EXCEPT ![p] = read_params(stub_file[p])]
    /\ pc' = [pc EXCEPT ![p] = IF Truthy(read_params(stub_file[p]))
                               THEN "lock" ELSE "returned"]
    /\ started' = Append(started, p)
    /\ before' = acq_file
    /\ UNCHANGED <<acq_file, lockfile, stub_file, stub_folder, acq_desc>>
    /\ UNCHANGED <<mergeVars, patchVars, envVars, getVars, handlerVars>>

\* FileLock.__enter__: no lock file is found and the process creates it (the
\* test and the creation taken as one step).
AcquireLock(p) ==
    /\ pc[p] = "lock"
    /\ ~lockfile
    /\ lockfile' = TRUE
    /\ pc' = [pc EXCEPT ![p] = "read"]
    /\ UNCHANGED <<acq_file, stub_file, stub_folder, data_device, acq_desc,
                   started, before>>
    /\ UNCHANGED <<mergeVars, patchVars, envVars, getVars, handlerVars>>

\* FileLock.__enter__ with timeout_action='delete': the lock file is still
\* there when the wait times out; the process deletes it and creates its own.
ReclaimLock(p) ==
    /\ pc[p] = "lock"
    /\ lockfile
    /\ lockfile' = TRUE
    /\ pc' = [pc EXCEPT ![p] = "read"]
    /\ UNCHANGED <<acq_file, stub_file, stub_folder, data_device, acq_desc,
                   started, before>>
    /\ UNCHANGED <<mergeVars, patchVars, envVars, getVars, handlerVars>>

\* As ReadCanonical, the existing canonical file never read: acq_desc = {}.
ReadCanonicalAlwaysNew(p) ==
    /\ pc[p] = "read"
    /\ acq_desc' = [acq_desc EXCEPT ![p] = EmptyDoc]
    /\ pc' = [pc EXCEPT ![p] = "merge"]
    /\ UNCHANGED <<acq_file, lockfile, stub_file, stub_folder, data_device,
                   started, before>>
    /\ UNCHANGED <<mergeVars, patchVars, envVars, getVars, handlerVars>>

\* acq_desc = read_params(...) if the canonical file exists, else {}.
ReadCanonical(p) ==
    /\ pc[p] = "read"
    /\ acq_desc' = [acq_desc EXCEPT ![p] =
                        IF acq_file.st # "absent" THEN read_params(acq_file)
                        ELSE EmptyDoc]
    /\ pc' = [pc EXCEPT ![p] = "merge"]
    /\ UNCHANGED <<acq_file, lockfile, stub_file, stub_folder, data_device,
                   started, before>>
    /\ UNCHANGED <<mergeVars, patchVars, envVars, getVars, handlerVars>>

\* acq_desc = merge_params(acq_desc, data_device)
Merge(p) ==
    /\ pc[p] = "merge"
    /\ \E ord \in Perms(SetEntries(acq_desc[p], data_device[p])) :
           LET r == merge_params(acq_desc[p], data_device[p], ord)
           IN /\ ~r.err
              /\ acq_desc' = [acq_desc EXCEPT ![p] = r.doc]
    /\ pc' = [pc EXCEPT ![p] = "open"]
    /\ UNCHANGED <<acq_file, lockfile, stub_file, stub_folder, data_device,
                   started, before>>
    /\ UNCHANGED <<mergeVars, patchVars, envVars, getVars, handlerVars>>

\* As MergeConflict, the lock file left in place when the AssertionError
\* leaves the locked section (the lock taken and released by hand, with no
\* with block).
MergeConflictKeepsLock(p) ==
    /\ pc[p] = "merge"
    /\ \E ord \in Perms(SetEntries(acq_desc[p], data_device[p])) :
           merge_params(acq_desc[p], data_device[p], ord).err
    /\ pc' = [pc EXCEPT ![p] = "raised"]
    /\ UNCHANGED <<acq_file, lockfile, stub_file, stub_folder, data_device,
                   started, before>>
    /\ acq_desc' = [acq_desc EXCEPT ![p] = EmptyDoc]
    /\ UNCHANGED <<mergeVars, patchVars, envVars, getVars, handlerVars>>

\* merge_params raises the AssertionError; leaving the with block deletes
\* the lock file and the call raises.
MergeConflict(p) ==
    /\ pc[p] = "merge"
    /\ \E ord \in Perms(SetEntries(acq_desc[p], data_device[p])) :
           merge_params(acq_desc[p], data_device[p], ord).err
    /\ lockfile' = FALSE
    /\ pc' = [pc EXCEPT ![p] = "raised"]
    /\ UNCHANGED <<acq_file, stub_file, stub_folder, data_device, started, before>>
    /\ acq_desc' = [acq_desc EXCEPT ![p] = EmptyDoc]
    /\ UNCHANGED <<mergeVars, patchVars, envVars, getVars, handlerVars>>

\* open(file_acquisition_description, 'w'): the file is created or cut to
\* length zero.
OpenWrite(p) ==
    /\ pc[p] = "open"
    /\ acq_file' = Empty
    /\ pc' = [pc EXCEPT ![p] = "dump"]
    /\ UNCHANGED <<lockfile, stub_file, stub_folder, data_device, acq_desc,
                   started, before>>
    /\ UNCHANGED <<mergeVars, patchVars, envVars, getVars, handlerVars>>

\* yaml.safe_dump(acq_desc, fp) completes and the file is closed.
Dump(p) ==
    /\ pc[p] = "dump"
    /\ acq_file' = yaml_safe_dump(acq_desc[p])
    /\ pc' = [pc EXCEPT ![p] = "exit"]
    /\ UNCHANGED <<lockfile, stub_file, stub_folder, data_device, acq_desc,
                   started, before>>
    /\ UNCHANGED <<mergeVars, patchVars, envVars, getVars, handlerVars>>

\* The write fails or is interrupted after the file was opened (an I/O error,
\* a signal): leaving the with blocks deletes the lock file, the call raises.
DumpFails(p) ==
    /\ pc[p] = "dump"
    /\ lockfile' = FALSE
    /\ pc' = [pc EXCEPT ![p] = "raised"]
    /\ UNCHANGED <<acq_file, stub_file, stub_folder, data_device, started, before>>
    /\ acq_desc' = [acq_desc EXCEPT ![p] = EmptyDoc]
    /\ UNCHANGED <<mergeVars, patchVars, envVars, getVars, handlerVars>>

\* FileLock.__exit__ deletes the lock file.  When another process has
\* already deleted it, the deletion finds no file: the call either goes on
\* or raises, depending on whether the lock tolerates a missing file.
ReleaseLock(p) ==
    /\ pc[p] = "exit"
    /\ lockfile' = FALSE
    /\ \/ /\ pc' = [pc EXCEPT ![p] = "unlink"]
          /\ UNCHANGED acq_desc
       \/ /\ ~lockfile
          /\ pc' = [pc EXCEPT ![p] = "raised"]
          /\ acq_desc' = [acq_desc EXCEPT ![p] = EmptyDoc]
    /\ UNCHANGED <<acq_file, stub_file, stub_folder, data_device, started, before>>
    /\ UNCHANGED <<mergeVars, patchVars, envVars, getVars, handlerVars>>

\* The device files still in the _devices folder once p's own is deleted
\* (every device file is named <label>@<host>.yaml).
StubsLeft(p) == {q \in Procs \ {p} : stub_file[q].st # "absent"}

\* any(stub_folder.glob('*.*')): a name with a dot in it is left.
GlobFindsFile(p) == StubsLeft(p) # {} \/ GlobDotted(other_files) # {}

\* if unlink: the device file is deleted, then stub_folder.rmdir() is called
\* when the folder exists and the glob finds nothing; rmdir raises OSError
\* on a folder that still holds a name.  return acq_desc (the local ends
\* with the call).
Return(p) ==
    /\ pc[p] = "unlink"
    /\ \E unlink \in BOOLEAN :
           IF unlink
           THEN /\ stub_file' = [stub_file EXCEPT ![p] = Absent]
                /\ IF stub_folder /\ ~GlobFindsFile(p)
                   THEN IF other_files = {}
                        THEN /\ stub_folder' = FALSE
                             /\ pc' = [pc EXCEPT ![p] = "returned"]
                        ELSE /\ stub_folder' = stub_folder
                             /\ pc' = [pc EXCEPT ![p] = "raised"]
                   ELSE /\ stub_folder' = stub_folder
                        /\ pc' = [pc EXCEPT ![p] = "returned"]
           ELSE /\ UNCHANGED <<stub_file, stub_folder>>
                /\ pc' = [pc EXCEPT ![p] = "returned"]
    /\ UNCHANGED <<acq_file, lockfile, data_device, started, before>>
    /\ acq_desc' = [acq_desc EXCEPT ![p] = EmptyDoc]
    /\ UNCHANGED <<mergeVars, patchVars, envVars, getVars, handlerVars>>

Step(p) ==
    \/ ReadStub(p)
    \/ AcquireLock(p)
    \/ ReclaimLock(p)
    \/ ReadCanonical(p)
    \/ Merge(p)
    \/ MergeConflict(p)
    \/ OpenWrite(p)
    \/ Dump(p)
    \/ DumpFails(p)
    \/ ReleaseLock(p)
    \/ Return(p)

Next == \E p \in Procs : Step(p)

Spec == Init /\ [][Next]_vars

\* Process p is inside a call of aggregate_device.
InCall(p) == pc[p] \notin {"start", "returned", "raised"}

\* A process starts its call when no other process is inside one.
ReadStubAlone(p) ==
    /\ \A q \in Procs \ {p} : ~InCall(q)
    /\ ReadStub(p)

\* One call at a time.
NextSeq ==
    \E p \in Procs :
        \/ ReadStubAlone(p)
        \/ AcquireLock(p)
        \/ ReclaimLock(p)
        \/ ReadCanonical(p)
        \/ Merge(p)
        \/ MergeConflict(p)
        \/ OpenWrite(p)
        \/ Dump(p)
        \/ DumpFails(p)
        \/ ReleaseLock(p)
        \/ Return(p)

\* As Init, with more device files, and possibly a lock file that a killed
\* process left behind.
InitSeq ==
    /\ arg_a = EmptyDoc
    /\ arg_b = EmptyDoc
    /\ merged = NotCalled
    /\ acq_file = Absent
    /\ lockfile \in BOOLEAN
    /\ stub_file \in [Procs -> StubFilesSeq]
    /\ stub_folder = TRUE
    /\ pc = [p \in Procs |-> "start"]
    /\ data_device = [p \in Procs |-> None]
    /\ acq_desc = [p \in Procs |-> EmptyDoc]
    /\ started = <<>>
    /\ before = Absent
    /\ other_files \in SUBSET OtherNames
    /\ timeout_policy \in TimeoutActions
    /\ patch_data = EmptyDoc
    /\ patched = <<>>
    /\ GetIdle
    /\ HandlersIdle

SpecSeq == InitSeq /\ [][NextSeq]_vars

---------------------------------------------------------------------------
(* Properties of merge_params (SpecMerge).                                 *)

BothSync == "sync" \in DOMAIN arg_a /\ "sync" \in DOMAIN arg_b

NoRepeat(s) == \A i, j \in DOMAIN s : s[i] = s[j] => i = j

\* C7: for the keys procedures and projects, merge_params(a, b) yields the
\* set union of a's and b's entries, every entry occurring exactly once, also
\* when a's or b's list already holds repeated entries.
C7_UnionEachEntryOnce ==
    (merged.called /\ ~merged.out.err) =>
        \A k \in {"procedures", "projects"} \cap DOMAIN arg_b :
            /\ Range(merged.out.doc[k].v) = Range(Prev(arg_a, k)) \cup Range(arg_b[k].v)
            /\ NoRepeat(merged.out.doc[k].v)

\* C8: for the key tasks, merge_params(a, b) yields a's task list followed by
\* b's task list in b's order; nothing is removed or reordered, also when the
\* same entry occurs in both.
C8_TasksConcatenated ==
    (merged.called /\ ~merged.out.err /\ "tasks" \in DOMAIN arg_b) =>
        merged.out.doc["tasks"] = List(Prev(arg_a, "tasks") \o arg_b["tasks"].v)

C8_Witness ==
    /\ merged.called
    /\ ~merged.out.err
    /\ "tasks" \in DOMAIN arg_a
    /\ "tasks" \in DOMAIN arg_b
    /\ Range(arg_a["tasks"].v) \cap Range(arg_b["tasks"].v) # {}
    /\ Len(merged.out.doc["tasks"].v) = Len(arg_a["tasks"].v) + Len(arg_b["tasks"].v)

\* The recursive merge of two values: maps present on both sides are merged
\* sub-key by sub-key, anything else is overridden by y.
RECURSIVE DeepMerge(_, _)
DeepMerge(x, y) ==
    IF x.t = "dict" /\ y.t = "dict"
    THEN Dict([s \in DOMAIN x.v \cup DOMAIN y.v |->
                   IF s \notin DOMAIN y.v THEN x.v[s]
                   ELSE IF s \notin DOMAIN x.v THEN y.v[s]
                   ELSE DeepMerge(x.v[s], y.v[s])])
    ELSE y

\* C9: for map-valued keys merge_params(a, b) merges recursively: b's scalar
\* overrides a's, nested maps present on both sides are merged sub-key by
\* sub-key, a's sub-keys that b does not mention being kept.
C9_MapsMergedRecursively ==
    (merged.called /\ ~merged.out.err) =>
        \A k \in DOMAIN arg_a \cap DOMAIN arg_b :
            arg_b[k].t = "dict" => merged.out.doc[k] = DeepMerge(arg_a[k], arg_b[k])

---------------------------------------------------------------------------
(* Properties of aggregate_device.                                         *)

\* The processes that have read the canonical file and not finished writing.
InReadMergeWrite == {p \in Procs : pc[p] \in {"merge", "open", "dump"}}

\* C1: concurrent calls on the same canonical path are serialized by the file
\* lock: in every interleaving, a waiting process reaching the lock timeout
\* included, at most one process is between reading the canonical file and
\* finishing writing it.
C1_AtMostOneInReadMergeWrite == Cardinality(InReadMergeWrite) <= 1

\* The description doc holds the procedures, projects, devices entries and
\* tasks of the device description stub.
Contains(doc, stub) ==
    /\ \A k \in ListKeys \cap DOMAIN stub :
           k \in DOMAIN doc /\ Range(stub[k].v) \subseteq Range(doc[k].v)
    /\ "devices" \in DOMAIN stub =>
           /\ "devices" \in DOMAIN doc
           /\ \A s \in DOMAIN stub["devices"].v :
                  /\ s \in DOMAIN doc["devices"].v
                  /\ doc["devices"].v[s] = stub["devices"].v[s]

\* Two device descriptions that no merge sets against each other: no common
\* devices entry, and no two different sync values.
NonConflicting(x, y) ==
    /\ ("devices" \in DOMAIN x /\ "devices" \in DOMAIN y) =>
           DOMAIN x["devices"].v \cap DOMAIN y["devices"].v = {}
    /\ ("sync" \in DOMAIN x /\ "sync" \in DOMAIN y) => x["sync"] = y["sync"]

\* C2: no update is lost: once concurrent calls with different non-conflicting
\* stubs on the same canonical path have returned successfully, the canonical
\* document holds the content of every one of those stubs.  Stated of each
\* call that has returned, while no call has failed and no write is under way.
C2_NoLostUpdate ==
    \A p \in Procs :
        ( /\ pc[p] = "returned"
          /\ Truthy(data_device[p])
          /\ \A q \in Procs : pc[q] \notin {"dump", "raised"}
          /\ \A q \in Procs \ {p} :
                 Truthy(data_device[q]) => NonConflicting(data_device[p], data_device[q]) )
        => /\ acq_file.st = "doc"
           /\ Contains(acq_file.doc, data_device[p])

\* Process p made the latest call.
LastCaller(p) == started # <<>> /\ started[Len(started)] = p

\* C3: the canonical file is written all-or-nothing: whenever a call fails or
\* is interrupted (sync conflict, lock error, failure while persisting), the
\* file holds the complete document it held before the call, never an empty or
\* partial one.  Stated of calls made one at a time.
C3_FailedCallLeavesFile ==
    \A p \in Procs :
        (pc[p] = "raised" /\ LastCaller(p) /\ before.st = "doc")
            => acq_file = before

\* C5: after any sequence of aggregate_device calls that starts from an
\* absent canonical file, with stubs of at most one sync label each, the
\* 'sync' field of the canonical document has at most one label.
C5_AtMostOneSyncLabel ==
    acq_file.st = "doc" => Cardinality(sync_keys(acq_file.doc)) <= 1

C5_Witness ==
    \E q \in Procs :
        /\ pc[q] = "raised"
        /\ acq_file.st = "doc"
        /\ Cardinality(sync_keys(acq_file.doc)) = 1
        /\ Cardinality(sync_keys(data_device[q])) = 1
        /\ sync_keys(data_device[q]) # sync_keys(acq_file.doc)

\* The canonical document after one more aggregation of the device
\* description stub, doc being the document in the file (EmptyDoc: no file).
Aggregated(doc, stub) ==
    LET base == _patch_file(doc)
    IN merge_params(base, stub,
                    CHOOSE ord \in Perms(SetEntries(base, stub)) : TRUE).doc

\* The entries of the list under key k, as a set.
EntrySet(d, k) == IF k \in DOMAIN d THEN Range(d[k].v) ELSE {}

\* The devices map of a description.
DevicesMap(d) == IF "devices" \in DOMAIN d THEN d["devices"].v ELSE EmptyDoc

\* C6: for any two stubs aggregated into the same canonical file, the
\* resulting procedures and projects (as sets) and devices map are the same
\* whichever stub is aggregated first, also when both stubs contribute
\* different sub-entries under the same devices key.
C6_UnionFieldsOrderIndependent ==
    \A p, q \in Procs :
        ( /\ started = <<p, q>>
          /\ pc[p] = "returned" /\ pc[q] = "returned"
          /\ Truthy(data_device[p]) /\ Truthy(data_device[q])
          /\ acq_file.st = "doc" )
        => LET other == Aggregated(Aggregated(EmptyDoc, data_device[q]), data_device[p])
           IN /\ EntrySet(acq_file.doc, "procedures") = EntrySet(other, "procedures")
              /\ EntrySet(acq_file.doc, "projects") = EntrySet(other, "projects")
              /\ DevicesMap(acq_file.doc) = DevicesMap(other)

\* The keys that hold a scalar in both descriptions.
CommonScalars(x, y) == {k \in DOMAIN x \cap DOMAIN y : x[k].t = "str" /\ y[k].t = "str"}

\* C10: for scalar-valued keys the last writer wins: after aggregating stub A
\* and then stub B that both define the same scalar key, the canonical
\* document holds B's value.
C10_LastWriterWins ==
    \A p, q \in Procs :
        ( /\ Len(started) >= 2
          /\ started[Len(started) - 1] = p /\ started[Len(started)] = q
          /\ pc[p] = "returned" /\ pc[q] = "returned"
          /\ Truthy(data_device[p]) /\ Truthy(data_device[q]) )
        => /\ acq_file.st = "doc"
           /\ \A k \in CommonScalars(data_device[p], data_device[q]) :
                  acq_file.doc[k] = data_device[q][k]

C10_Witness ==
    \E p, q \in Procs :
        /\ started = <<p, q>>
        /\ pc[p] = "returned" /\ pc[q] = "returned"
        /\ data_device[p] # None /\ data_device[q] # None
        /\ "subject" \in DOMAIN data_device[p] \cap DOMAIN data_device[q]
        /\ data_device[p]["subject"] # data_device[q]["subject"]
        /\ acq_file.st = "doc"
        /\ acq_file.doc["subject"] = data_device[q]["subject"]

---------------------------------------------------------------------------
(* The same device file aggregated twice.                                  *)

\* The value of field k of a description, None when it has no such field.
FieldOf(d, k) == IF k \in DOMAIN d THEN d[k] ELSE None

\* Process q made the latest call and process p the call before it, both
\* returned, both from device files of the same content that are still on
\* disk (unlink false).
SameStubTwice(p, q) ==
    /\ p # q
    /\ Len(started) >= 2
    /\ started[Len(started) - 1] = p
    /\ started[Len(started)] = q
    /\ pc[p] = "returned"
    /\ pc[q] = "returned"
    /\ stub_file[p].st = "doc"
    /\ stub_file[q] = stub_file[p]

\* C11: aggregating the same stub a second time (unlink false) leaves
\* procedures, projects and devices exactly as the first aggregation left
\* them, and appends the stub's task entries once more, so that tasks ends
\* with the stub's task entries twice.
C11_ResubmitIdempotentExceptTasks ==
    \A p, q \in Procs :
        SameStubTwice(p, q) =>
            /\ acq_file.st = "doc"
            /\ before.st = "doc"
            /\ \A k \in {"procedures", "projects", "devices"} :
                   FieldOf(acq_file.doc, k) = FieldOf(before.doc, k)
            /\ "tasks" \in DOMAIN data_device[q] =>
                   LET t == data_device[q]["tasks"].v
                       bt == before.doc["tasks"].v
                   IN /\ "tasks" \in DOMAIN before.doc
                      /\ Len(bt) >= Len(t)
                      /\ SubSeq(bt, Len(bt) - Len(t) + 1, Len(bt)) = t
                      /\ acq_file.doc["tasks"].v = bt \o t

C11_Witness ==
    \E p, q \in Procs :
        /\ SameStubTwice(p, q)
        /\ stub_file[p] = yaml_safe_dump(StubCamRight)
        /\ acq_file.st = "doc"
        /\ acq_file.doc["tasks"].v = <<TaskBar, TaskBar>>
        /\ acq_file.doc["projects"].v = StubCamRight["projects"].v

---------------------------------------------------------------------------
(* _patch_file                                                             *)

\* C12: _patch_file is idempotent: applied to its own result it returns
\* that result unchanged.
C12_PatchIdempotent ==
    Len(patched) = 2 => patched[2] = patched[1]

C12_Witness ==
    /\ Len(patched) = 2
    /\ patched[1] # patch_data
    /\ "tasks" \in DOMAIN patch_data
    /\ patch_data["tasks"] \in LegacyTasks

\* C13 as stated: for every document, the empty one and those of a newer
\* version included, the document _patch_file returns has 'version' equal
\* to the current spec version.
C13_AlwaysStamped ==
    Len(patched) >= 1 =>
        /\ "version" \in DOMAIN patched[1]
        /\ patched[1]["version"] = Str(SPEC_VERSION)

\* C13 amended: for every document that is not empty, those of a newer
\* version included, the document _patch_file returns has 'version' equal
\* to the current spec version; the empty document is returned as it is,
\* with no 'version'.
C13_NonEmptyStamped ==
    Len(patched) >= 1 =>
        IF patch_data = EmptyDoc
        THEN patched[1] = EmptyDoc
        ELSE /\ "version" \in DOMAIN patched[1]
             /\ patched[1]["version"] = Str(SPEC_VERSION)

C13_Witness ==
    /\ Len(patched) >= 1
    /\ "version" \in DOMAIN patch_data
    /\ patch_data["version"] = Str("2.0.0")
    /\ patched[1]["version"] = Str(SPEC_VERSION)

\* The document has no version or one at most 0.1.0, and its tasks is a map.
IsLegacy(data) ==
    /\ "tasks" \in DOMAIN data
    /\ data["tasks"].t = "dict"
    /\ \/ "version" \notin DOMAIN data
       \/ data["version"].v \in {"0", "0.1.0"}

\* C14: one call of _patch_file on a document with no version (or one at
\* most 0.1.0) whose tasks is a map protocol -> configuration makes tasks
\* a list of single-key maps, one per protocol, in the order of the map,
\* each with the protocol's configuration; every other field but 'version'
\* is unchanged.
C14_LegacyTasksToList ==
    (Len(patched) >= 1 /\ IsLegacy(patch_data)) =>
        LET old == patch_data["tasks"]
            new == patched[1]["tasks"]
        IN /\ new.t = "list"
           /\ Len(new.v) = Len(old.ks)
           /\ \A i \in 1..Len(old.ks) :
                  new.v[i] = Dict(old.ks[i] :> old.v[old.ks[i]])
           /\ DOMAIN patched[1] = DOMAIN patch_data \cup {"version"}
           /\ \A k \in DOMAIN patch_data \ {"tasks", "version"} :
                  patched[1][k] = patch_data[k]

C14_Witness ==
    /\ Len(patched) >= 1
    /\ IsLegacy(patch_data)
    /\ patch_data["tasks"].ks = <<"fooChoiceWorld", "barChoiceWorld">>
    /\ "subject" \in DOMAIN patch_data
    /\ patched[1]["tasks"] = List(<<TaskFoo, TaskBar>>)

---------------------------------------------------------------------------
(* aggregate_device: the early return, the lock, the unlink                *)

\* C15: a call whose device file is missing or empty returns at once and
\* changes nothing: the canonical file is neither created nor changed, the
\* lock file is not created, no file and no folder is deleted (the unlink
\* argument is not looked at on this path).
C15_EmptyStubNoMutation ==
    [][\A p \in Procs :
           (/\ pc[p] = "start"
            /\ pc'[p] # "start"
            /\ ~Truthy(read_params(stub_file[p]))) =>
               /\ pc'[p] = "returned"
               /\ UNCHANGED <<acq_file, lockfile, stub_file, stub_folder,
                              other_files>>]_vars

C15_Witness ==
    \E p \in Procs :
        /\ LastCaller(p)
        /\ pc[p] = "returned"
        /\ stub_file[p] = Empty
        /\ ~Truthy(data_device[p])
        /\ before.st = "doc"
        /\ acq_file = before
        /\ ~lockfile

\* Process p leaves the wait for the lock in this step, the lock file being
\* still there: its wait has timed out.
TimedOut(p) == pc[p] = "lock" /\ lockfile /\ pc'[p] # "lock"

\* C16: what a call does when its wait for the lock times out is the
\* configured policy: under 'delete' it deletes the stale lock file and
\* goes on with its own, under 'raise' it fails and leaves the canonical
\* file and the device file untouched.
C16_TimeoutPolicyApplied ==
    [][\A p \in Procs :
           TimedOut(p) =>
               IF timeout_policy = "delete"
               THEN pc'[p] = "read" /\ lockfile'
               ELSE pc'[p] = "raised" /\ UNCHANGED <<acq_file, stub_file>>]_vars

\* Process p's call went through the locked section and has left it: it is
\* past the with block, has returned, or has raised.
LeftLockedSection(p) ==
    /\ pc[p] \in {"unlink", "returned", "raised"}
    /\ Truthy(data_device[p])

\* Some process is between taking the lock and leaving the with block.
SomeoneLocked == \E q \in Procs : pc[q] \in {"read", "merge", "open", "dump", "exit"}

\* C17: the lock is released on every way out of the locked section: once
\* a call has returned or raised (the sync conflict and a failed write
\* included) and no other call is in the locked section, there is no lock
\* file, so the next call takes the lock without waiting for a timeout.
C17_LockReleasedOnExit ==
    ((\E p \in Procs : LeftLockedSection(p)) /\ ~SomeoneLocked) => ~lockfile

\* A call raised on a sync conflict with what an earlier call had written,
\* and the lock file is gone.
C17_Witness ==
    \E p, q \in Procs :
        /\ started = <<p, q>>
        /\ pc[p] = "returned"
        /\ pc[q] = "raised"
        /\ "sync" \in DOMAIN data_device[p]
        /\ "sync" \in DOMAIN data_device[q]
        /\ data_device[p]["sync"] # data_device[q]["sync"]
        /\ acq_file.st = "doc"
        /\ ~lockfile

\* Process p deletes its device file in this step (unlink is true).
Unlinks(p) ==
    /\ pc[p] = "unlink"
    /\ stub_file[p].st # "absent"
    /\ stub_file'[p].st = "absent"

\* C18: a call with unlink true that deletes its device file then removes
\* the _devices folder if and only if nothing is left in it; while any
\* other file is left the folder is kept and the call returns without an
\* error.
C18_FolderRemovedIffEmpty ==
    [][\A p \in Procs :
           Unlinks(p) =>
               LET nothing_left == StubsLeft(p) = {} /\ other_files = {}
               IN /\ pc'[p] = "returned"
                  /\ stub_folder' = (stub_folder /\ ~nothing_left)]_vars

\* C19: a device file is deleted only after its aggregation succeeded: when
\* it is deleted, a write of the canonical file has completed and the
\* document written contains the device file's content; and a call that
\* raised has left its device file in place.
C19_StubDeletedOnlyAfterSuccess ==
    [][\A p \in Procs :
           /\ Unlinks(p) =>
                  /\ acq_file.st = "doc"
                  /\ Contains(acq_file.doc, data_device[p])
           /\ pc'[p] = "raised" => stub_file'[p].st # "absent"]_vars

---------------------------------------------------------------------------
(* Two device files, one canonical document                                *)

\* Processes p then q made the only two calls, into a canonical file that
\* did not exist, and both returned; p's device file defines sync, q's
\* defines devices, or the other way round, and the two share no key.
TwoDisjointStubs(p, q) ==
    /\ started = <<p, q>>
    /\ pc[p] = "returned"
    /\ pc[q] = "returned"
    /\ Truthy(data_device[p])
    /\ Truthy(data_device[q])
    /\ DOMAIN data_device[p] \cap DOMAIN data_device[q] \subseteq {"version"}
    /\ \/ "sync" \in DOMAIN data_device[p] /\ "devices" \in DOMAIN data_device[q]
       \/ "devices" \in DOMAIN data_device[p] /\ "sync" \in DOMAIN data_device[q]

\* C20: two device files with disjoint top-level keys, one defining sync and
\* one defining devices, aggregated one after the other into a canonical
\* file that did not exist, give one canonical document that holds the
\* entries of both and whose version is the current spec version.
C20_TwoStubsOneDocument ==
    \A p, q \in Procs :
        TwoDisjointStubs(p, q) =>
            /\ acq_file.st = "doc"
            /\ DOMAIN acq_file.doc =
                   DOMAIN data_device[p] \cup DOMAIN data_device[q] \cup {"version"}
            /\ \A k \in DOMAIN data_device[p] \ {"version"} :
                   acq_file.doc[k] = data_device[p][k]
            /\ \A k \in DOMAIN data_device[q] \ {"version"} :
                   acq_file.doc[k] = data_device[q][k]
            /\ acq_file.doc["version"] = Str(SPEC_VERSION)

C20_Witness ==
    \E p, q \in Procs :
        /\ TwoDisjointStubs(p, q)
        /\ acq_file.st = "doc"
        /\ acq_file.doc["sync"] = SyncNidq
        /\ acq_file.doc["devices"] = CamRight
        /\ acq_file.doc["version"] = Str(SPEC_VERSION)

---------------------------------------------------------------------------
(* Claims on get_collections and the task getters                          *)

\* The latest getter call was of fn.
Got(fn) == got # NotCalled /\ got.fn = fn

RECURSIVE SeenIn(_, _)
RECURSIVE SeenItems(_, _)
RECURSIVE SeenList(_)

\* Every (key, collection) met in a description, at any depth, one pair for
\* each map with a 'collection' field, under the key that holds the map.
SeenIn(k, v) ==
    IF v.t = "dict"
    THEN (IF "collection" \in DOMAIN v.v THEN << <<k, v.v["collection"]>> >>
          ELSE <<>>) \o SeenItems(v.v, Items(v.v))
    ELSE IF v.t = "list" THEN SeenList(v.v)
    ELSE <<>>
SeenItems(d, ks) ==
    IF ks = <<>> THEN <<>>
    ELSE SeenIn(Head(ks), d[Head(ks)]) \o SeenItems(d, Tail(ks))
SeenList(s) ==
    IF s = <<>> THEN <<>>
    ELSE (IF Head(s).t = "dict" THEN SeenItems(Head(s).v, Items(Head(s).v))
          ELSE <<>>) \o SeenList(Tail(s))
Seen(sess_params) == SeenItems(sess_params, Items(sess_params))

\* C21: get_collections(document, flat=False) maps every key whose value is
\* a map with a 'collection' field to that collection; a key met again with
\* a different collection maps to all the distinct collections seen for it,
\* and a key met again with the same collection keeps its value.
C21_CollectionMap ==
    (Got("get_collections") /\ got.arg = FALSE) =>
        LET seen == Seen(get_params)
            keys == {seen[i][1] : i \in DOMAIN seen}
            of(k) == {seen[i][2] : i \in {j \in DOMAIN seen : seen[j][1] = k}}
        IN /\ DOMAIN got.out.val = keys
           /\ \A k \in keys :
                  got.out.val[k] = IF Cardinality(of(k)) = 1
                                   THEN CHOOSE c \in of(k) : TRUE
                                   ELSE ListOfSet(of(k))

\* C22: get_collections(document, flat=True) returns exactly the set of the
\* 'collection' values found anywhere in the document, at any depth, those
\* inside a map nested in a map that has a 'collection' itself included.
C22_FlatIsEveryCollection ==
    (Got("get_collections") /\ got.arg = TRUE) =>
        LET seen == Seen(get_params)
        IN got.out = SetOf({seen[i][2] : i \in DOMAIN seen})

\* The protocol of a task (its first key) and its collection, None when it
\* has none.
ProtocolOf(x) == Items(x.v)[1]
CollectionOf(x) == GetOr(FirstValue(x), "collection")

\* C23: get_task_protocol(document, collection) returns the protocol of the
\* first task of the tasks list whose collection is the given one, and None
\* exactly when no task has that collection, whatever the tasks list (the
\* same protocol in several tasks included).
C23_FirstTaskWithCollection ==
    (Got("get_task_protocol") /\ got.arg # PyNone) =>
        LET matches == SelectSeq(TasksOf(get_params),
                                 LAMBDA x : CollectionOf(x) = got.arg)
        IN got.out = IF matches = <<>> THEN PyNone
                     ELSE Str(ProtocolOf(matches[1]))

\* The collections of the tasks that have one.
TaskCollections(sess_params) ==
    {CollectionOf(TasksOf(sess_params)[i]) : i \in DOMAIN TasksOf(sess_params)}
        \ {PyNone}

C25_UnknownProtocolGivesNone ==
    (/\ Got("get_task_collection") \/ Got("get_task_protocol_number")
     /\ got.arg # PyNone
     /\ TasksNamed(get_params, got.arg) = <<>>) =>
        got.out = PyNone

\* The protocol_number of the tasks that define one, as integers, in task
\* order.
TaskNumbers(sess_params) ==
    LET tasks == TasksOf(sess_params)
        found == [i \in DOMAIN tasks |->
                      GetOr(FirstValue(tasks[i]), "protocol_number")]
        defined == SelectSeq(found, LAMBDA n : n # PyNone)
    IN [i \in DOMAIN defined |-> ToInt(defined[i])]

\* C26: get_task_protocol_number gives every protocol_number, 0 included,
\* as an integer: that of the named task when a protocol (that a task has)
\* is named; with no protocol, those of all the tasks that define one, in
\* task order, the number itself when there is exactly one.
C26_EveryNumberAsInteger ==
    Got("get_task_protocol_number") =>
        IF got.arg # PyNone
        THEN TasksNamed(get_params, got.arg) # <<>> =>
                 got.out = ToInt(GetOr(TasksNamed(get_params, got.arg)[1].v[got.arg.v],
                                       "protocol_number"))
        ELSE LET tasks == TasksOf(get_params)
                 numbers == TaskNumbers(get_params)
             IN (\A i \in DOMAIN tasks : FirstValue(tasks[i]) # PyNone) =>
                    got.out = IF Len(numbers) = 0 THEN PyNone
                              ELSE IF Len(numbers) = 1 THEN numbers[1]
                              ELSE List(numbers)

---------------------------------------------------------------------------
(* ServerDataHandler: uploadData and cleanUp called on one handler, in any *)
(* order.                                                                  *)

\* The output files of a task.
Artifacts == {"_ibl_trials.table.pqt", "_ibl_wheel.position.npy"}
OutputLists == Lists(Artifacts)

\* The record the registry returns for a file it registered, and the
\* registration data returned for it by a dry run.
Receipt(x) == [t |-> "record", v |-> x]
DryData(x) == [t |-> "dry", v |-> x]

\* register_dataset(to_upload, ...): it raises, or it returns None for no
\* file, or one entry for each file, in the order of the files: the file's
\* record, or None for a file that was not registered.
register_dataset(file_list, dry) ==
    {Raised("HTTPError")} \cup
    IF file_list = <<>> THEN {PyNone}
    ELSE {List(r) : r \in {x \in [DOMAIN file_list ->
                                     {Receipt(a) : a \in Artifacts} \cup
                                     {DryData(a) : a \in Artifacts} \cup {PyNone}] :
                               \A i \in DOMAIN file_list :
                                   IF dry THEN x[i] = DryData(file_list[i])
                                   ELSE x[i] \in {Receipt(file_list[i]), PyNone}}}

\* As to_upload, without the test on self.processed.
to_upload_Everything(outputs, clobber) == outputs

\* list(filter(None if clobber else lambda x: x not in self.processed, outputs))
to_upload(outputs, clobber) ==
    IF clobber THEN outputs
    ELSE SelectSeq(outputs, LAMBDA x : x \notin DOMAIN processed)

\* As Stored, without the `if v` of the comprehension.
StoredWithFailures(files, records) ==
    LET n == IF Len(records) < Len(files) THEN Len(records) ELSE Len(files)
        new == {files[i] : i \in 1..n}
    IN [k \in DOMAIN processed \cup new |->
            IF k \in new
            THEN records[CHOOSE i \in 1..n :
                             files[i] = k /\ \A j \in 1..n : files[j] = k => j <= i]
            ELSE processed[k]]

\* self.processed.update({k: v for k, v in zip(to_upload, records) if v}):
\* zip stops at the shorter list, the last pair of a key wins.
Stored(files, records) ==
    LET n == IF Len(records) < Len(files) THEN Len(records) ELSE Len(files)
        kept == {i \in 1..n : ~Falsy(records[i])}
        new == {files[i] : i \in kept}
    IN [k \in DOMAIN processed \cup new |->
            IF k \in new
            THEN records[CHOOSE i \in kept :
                             files[i] = k /\ \A j \in kept : files[j] = k => j <= i]
            ELSE processed[k]]

\* The latest call on the handler was of fn.
Called(fn) == last_call # NotCalled /\ last_call.fn = fn

UploadData ==
    \E outputs \in OutputLists, clobber \in BOOLEAN, dry \in BOOLEAN :
        LET files == to_upload(outputs, clobber)
        IN \E outcome \in register_dataset(files, dry) :
               LET raised == outcome.t = "raised"
                   records == IF outcome.t = "list" THEN outcome.v ELSE <<>>
                   stored == IF raised \/ dry THEN processed
                             ELSE Stored(files, records)
                   present == SelectSeq(outputs, LAMBDA x : x \in DOMAIN stored)
               IN /\ processed' = stored
                  /\ registered' =
                         IF raised \/ dry THEN registered
                         ELSE registered \cup
                                  {files[i] : i \in {j \in DOMAIN records :
                                                         records[j] # PyNone}}
                  /\ last_call' =
                         [called |-> TRUE, fn |-> "uploadData",
                          outputs |-> outputs, clobber |-> clobber, dry |-> dry,
                          before |-> processed,
                          cleaned |-> IF Called("cleanUp") THEN last_call.out ELSE <<>>,
                          to_upload |-> files, outcome |-> outcome,
                          out |-> IF raised THEN outcome
                                  ELSE IF dry THEN List(records)
                                  ELSE List([i \in DOMAIN present |->
                                                 stored[present[i]]])]
                  /\ UNCHANGED <<descriptionVars, getVars, sdscVars, remoteVars>>

\* As CleanUp, with self.processed left as it is.
CleanUpKeeps ==
    /\ processed' = processed
    /\ last_call' = [called |-> TRUE, fn |-> "cleanUp",
                     before |-> processed, out |-> processed]
    /\ UNCHANGED <<registered, descriptionVars, getVars, sdscVars, remoteVars>>

CleanUp ==
    /\ processed' = <<>>
    /\ last_call' = [called |-> TRUE, fn |-> "cleanUp",
                     before |-> processed, out |-> processed]
    /\ UNCHANGED <<registered, descriptionVars, getVars, sdscVars, remoteVars>>

InitServer == DescriptionIdle /\ GetIdle /\ ServerIdle /\ SDSCIdle /\ RemoteIdle
NextServer == UploadData \/ CleanUp
SpecServer == InitServer /\ [][NextServer]_vars

\* C27: between two cleanUp calls, an uploadData with clobber false submits
\* for registration no artifact that has a receipt recorded in the handler;
\* an uploadData with clobber true submits every artifact it is given.
C27_RecordedNeverResubmitted ==
    Called("uploadData") =>
        IF last_call.clobber
        THEN last_call.to_upload = last_call.outputs
        ELSE /\ \A i \in DOMAIN last_call.to_upload :
                    last_call.to_upload[i] \notin DOMAIN last_call.before
             /\ \A i \in DOMAIN last_call.outputs :
                    last_call.outputs[i] \notin DOMAIN last_call.before =>
                        last_call.outputs[i] \in Range(last_call.to_upload)

\* Two artifacts are given, one with a receipt recorded: the other alone is
\* submitted.
C27_Witness ==
    /\ Called("uploadData")
    /\ ~last_call.clobber
    /\ Len(last_call.outputs) = 2
    /\ last_call.outputs[1] \in DOMAIN last_call.before
    /\ last_call.to_upload = <<last_call.outputs[2]>>

\* C28: every key of self.processed is an artifact for which the registry
\* returned a receipt, and its value is the receipt of that artifact; an
\* uploadData whose registration raises leaves self.processed as it was.
C28_OnlyConfirmedSuccesses ==
    /\ \A k \in DOMAIN processed :
           k \in registered /\ processed[k] = Receipt(k)
    /\ (Called("uploadData") /\ last_call.outcome.t = "raised") =>
           processed = last_call.before

\* Two artifacts were submitted and one of them was registered: it alone is
\* in self.processed.
C28_Witness ==
    /\ Called("uploadData")
    /\ last_call.before = <<>>
    /\ Len(last_call.to_upload) = 2
    /\ last_call.outcome = List(<<PyNone, Receipt(last_call.to_upload[2])>>)
    /\ DOMAIN processed = {last_call.to_upload[2]}
    /\ last_call.to_upload[1] # last_call.to_upload[2]

\* C29: cleanUp returns self.processed as it was before the call and leaves
\* it empty; the uploadData that follows, with clobber false, submits again
\* every artifact given to it that was in the map cleanUp returned.
C29_CleanUpEmptiesTheMap ==
    /\ Called("cleanUp") =>
           last_call.out = last_call.before /\ processed = <<>>
    /\ (Called("uploadData") /\ ~last_call.clobber) =>
           \A a \in DOMAIN last_call.cleaned \cap Range(last_call.outputs) :
               a \in Range(last_call.to_upload)

\* An artifact of the map that cleanUp returned is registered again.
C29_Witness ==
    /\ Called("uploadData")
    /\ ~last_call.clobber
    /\ ~last_call.dry
    /\ \E a \in DOMAIN last_call.cleaned :
           /\ a \in Range(last_call.to_upload)
           /\ a \in DOMAIN processed

---------------------------------------------------------------------------
(* SDSCDataHandler: setUp and cleanUp on one handler. A path is the        *)
(* sequence of its parts, as pathlib's .parts gives them.                  *)

\* The quarantine root SDSC_PATCH_PATH that ibllib.oneibl.patcher defines
\* (/home/datauser/temp/proc_temp), and a root of four parts.
PatchPaths ==
    {<<"/", "home", "datauser", "temp", "proc_temp">>,
     <<"/", "mnt", "quarantine", "tasks">>}

\* The values self.task.session_path may have when cleanUp is called: the
\* folder setUp made under a root, a folder beside a root, the folder that
\* holds a root, and the session folder of the data store.
SessionPaths ==
    {<<"/", "home", "datauser", "temp", "proc_temp", "Task", "session">>,
     <<"/", "home", "datauser", "temp", "other", "session">>,
     <<"/", "home", "datauser", "temp">>,
     <<"/", "mnt", "quarantine", "tasks", "Task", "session">>,
     <<"/", "mnt", "quarantine", "other">>,
     <<"/", "mnt", "ibl", "lab", "session">>}

\* p.parts[0:n]
Parts(p, n) == SubSeq(p, 1, IF Len(p) < n THEN Len(p) ELSE n)

\* The path p is root or lies under it.
IsPrefix(root, p) == Len(root) <= Len(p) /\ SubSeq(p, 1, Len(root)) = root

\* The directories shutil.rmtree(p) removes from those that exist.
rmtree(p, existing) == {d \in existing : IsPrefix(p, d)}

\* self.task.__class__.__name__
TaskKind == "Task"

\* SDSC_ROOT_PATH, the folder of the data store.
SDSC_ROOT_PATH == <<"/", "mnt", "ibl", "lab">>

\* The rows of the catalog for the session: d['session_path'] is relative to
\* the data store, the index of the row is the uuid of the dataset.
Records ==
    {[session_path |-> <<"session">>, rel_path |-> <<"alf", "spikes.times.npy">>,
      uuid |-> "uuid1"],
     [session_path |-> <<"session">>, rel_path |-> <<"alf", "spikes.clusters.npy">>,
      uuid |-> "uuid2"]}

\* SDSC_TMP = self.SDSC_PATCH_PATH.joinpath(self.task.__class__.__name__)
SDSC_TMP == SDSC_PATCH_PATH \o <<TaskKind>>

\* file_link = SDSC_TMP.joinpath(Path(d['session_path']).joinpath(d['rel_path']))
file_link(d) == SDSC_TMP \o d.session_path \o d.rel_path

\* self.SDSC_ROOT_PATH.joinpath(add_uuid_string(file_path, uuid))
file_uuid(d) ==
    [path |-> SDSC_ROOT_PATH \o d.session_path \o d.rel_path, uuid |-> d.uuid]

\* The folders file_link.parent.mkdir(exist_ok=True, parents=True) leaves in
\* existence for the rows of df.
mkdir_parents(df) ==
    UNION {{SubSeq(file_link(d), 1, n) : n \in 1..(Len(file_link(d)) - 1)} : d \in df}

\* The latest call on the handler was of fn.
SDSCDid(fn) == sdsc_result # NotCalled /\ sdsc_result.fn = fn

\* setUp on the rows getData found: a link is made for each row unless there
\* is one already; the d of line 442 is the last row, and is not bound when
\* there was no row.
SDSCSetUp ==
    /\ \E df \in SUBSET Records :
           /\ trees' = trees \cup mkdir_parents(df)
           /\ links' = [l \in DOMAIN links \cup {file_link(d) : d \in df} |->
                            IF l \in DOMAIN links THEN links[l]
                            ELSE file_uuid(CHOOSE d \in df : file_link(d) = l)]
           /\ IF df = {}
              THEN /\ task_session_path' = task_session_path
                   /\ sdsc_result' = [called |-> TRUE, fn |-> "setUp", df |-> df,
                                      out |-> Raised("UnboundLocalError"),
                                      before |-> trees, linked |-> DOMAIN links]
              ELSE /\ \E d \in df : task_session_path' = SDSC_TMP \o d.session_path
                   /\ sdsc_result' = [called |-> TRUE, fn |-> "setUp", df |-> df,
                                      out |-> PyNone,
                                      before |-> trees, linked |-> DOMAIN links]
    /\ UNCHANGED <<SDSC_PATCH_PATH, session_path,
                   descriptionVars, getVars, serverVars, remoteVars>>

\* The links that are left when the tree at p is removed.
unlinked(p, ls) == [l \in {k \in DOMAIN ls : ~IsPrefix(p, k)} |-> ls[l]]

SDSCCleanUp ==
    /\ IF Parts(SDSC_PATCH_PATH, 4) # Parts(task_session_path, 4)
       THEN /\ sdsc_result' = [called |-> TRUE, fn |-> "cleanUp",
                               out |-> Raised("AssertionError"), before |-> trees]
            /\ trees' = trees
            /\ links' = links
       ELSE IF task_session_path \notin trees
       THEN /\ sdsc_result' = [called |-> TRUE, fn |-> "cleanUp",
                               out |-> Raised("FileNotFoundError"), before |-> trees]
            /\ trees' = trees
            /\ links' = links
       ELSE /\ sdsc_result' = [called |-> TRUE, fn |-> "cleanUp", out |-> PyNone,
                               before |-> trees]
            /\ trees' = trees \ rmtree(task_session_path, trees)
            /\ links' = unlinked(task_session_path, links)
    /\ UNCHANGED <<SDSC_PATCH_PATH, task_session_path, session_path,
                   descriptionVars, getVars, serverVars, remoteVars>>

InitSDSC ==
    /\ DescriptionIdle /\ GetIdle /\ ServerIdle /\ RemoteIdle
    /\ SDSC_PATCH_PATH \in PatchPaths
    /\ task_session_path \in SessionPaths
    /\ session_path = task_session_path
    /\ trees \in SUBSET SessionPaths
    /\ links = <<>>
    /\ sdsc_result = NotCalled
NextSDSC == SDSCSetUp \/ SDSCCleanUp
SpecSDSC == InitSDSC /\ [][NextSDSC]_vars

\* C30: cleanUp removes a directory tree only when the path it removes lies
\* under the quarantine root the handler is configured with; for a task
\* session path that is not under that root it raises and removes nothing.
C30_RemovesOnlyUnderRoot ==
    SDSCDid("cleanUp") =>
        /\ trees # sdsc_result.before => IsPrefix(SDSC_PATCH_PATH, task_session_path)
        /\ ~IsPrefix(SDSC_PATCH_PATH, task_session_path) =>
               /\ sdsc_result.out.t = "raised"
               /\ trees = sdsc_result.before

\* C35: setUp returns whatever the number of rows; when it has returned there
\* is a link for each row at <root>/<task kind>/<session path>/<relative
\* path>, to the uuid-named file of the data store when setUp made it, and
\* the session path of the task is under <root>/<task kind>.
C35_LinksEveryRecord ==
    SDSCDid("setUp") =>
        /\ sdsc_result.out = PyNone
        /\ \A d \in sdsc_result.df :
               /\ file_link(d) \in DOMAIN links
               /\ file_link(d) \notin sdsc_result.linked =>
                      links[file_link(d)] = file_uuid(d)
        /\ IsPrefix(SDSC_TMP, task_session_path)

\* C39: on a handler whose session path is not under the quarantine root,
\* whatever the calls before it, a cleanUp removes no folder but those of the
\* tree setUp gave the task, and never the session folder.
C39_OnlyTheQuarantineTree ==
    (SDSCDid("cleanUp") /\ ~IsPrefix(SDSC_PATCH_PATH, session_path)) =>
        /\ session_path \in sdsc_result.before => session_path \in trees
        /\ \A d \in sdsc_result.before \ trees :
               \E r \in Records : IsPrefix(SDSC_TMP \o r.session_path, d)

---------------------------------------------------------------------------
(* ServerGlobusDataHandler: the handlers of two tasks of one session, on   *)
(* one server. setUp is two steps, the call up to the request of the       *)
(* transfer and the end of the transfer; cleanUp is one step.              *)

\* The datasets of the session, in the order of the rows of df.
InputOrder == <<"ephysData.ap.cbin", "ephysData.ap.meta">>
Inputs == Range(InputOrder)

\* The free space at the start is at most MaxSpace files, and self.local_paths
\* is followed up to MaxPaths entries.
MaxSpace == 3
MaxPaths == 2

\* The 500e9 bytes of the check, in files.
MinSpaceFree == 2

\* As SpaceTooLow, the check also failing while another handler downloads.
SpaceTooLowOrBusy(h) ==
    \/ space_free < MinSpaceFree
    \/ \E q \in Handlers \ {h} : globus_pc[q] = "moving"

\* space_free < 500e9
SpaceTooLow(h) == space_free < MinSpaceFree

\* As NotLocal, without the test of full_local_path.exists().
NotLocalEvery(df) == SelectSeq(InputOrder, LAMBDA f : f \in df)

\* The rows of df whose full_local_path does not exist, in row order.
NotLocal(df) == SelectSeq(InputOrder, LAMBDA f : f \in df /\ f \notin local_files)

\* setUp up to the call of self.globus.mv: it returns when df is empty or the
\* space is short, records the files to fetch in self.local_paths and, when
\* there are some, requests their transfer.
GlobusSetUp(h) ==
    /\ globus_pc[h] = "idle"
    /\ LET early == globus_df = {} \/ SpaceTooLow(h)
           new == IF early THEN <<>> ELSE NotLocal(globus_df)
       IN /\ Len(local_paths[h]) + Len(new) <= MaxPaths
          /\ local_paths' = [local_paths EXCEPT ![h] = @ \o new]
          /\ target_paths' = [target_paths EXCEPT ![h] = Range(new)]
          /\ globus_pc' = [globus_pc EXCEPT ![h] = IF new = <<>> THEN "idle"
                                                   ELSE "moving"]
          /\ globus_result' = [called |-> TRUE, h |-> h, fn |-> "setUp",
                               requested |-> Range(new), out |-> PyNone]
    /\ UNCHANGED <<globus_df, local_files, space_free, downloaded>>
    /\ UNCHANGED <<descriptionVars, getVars, serverVars, sdscVars, awsVars,
                   setup_result>>

\* The end of self.globus.mv: the files it wrote are on the disk; it raises
\* unless it wrote them all.
GlobusMv(h) ==
    /\ globus_pc[h] = "moving"
    /\ \E created \in SUBSET target_paths[h] :
           /\ Cardinality(created \ local_files) <= space_free
           /\ local_files' = local_files \cup created
           /\ space_free' = space_free - Cardinality(created \ local_files)
           /\ downloaded' = [downloaded EXCEPT ![h] = @ \cup created]
           /\ globus_result' = [called |-> TRUE, h |-> h, fn |-> "mv",
                                requested |-> target_paths[h],
                                out |-> IF created = target_paths[h] THEN PyNone
                                        ELSE Raised("GlobusTransferError")]
    /\ globus_pc' = [globus_pc EXCEPT ![h] = "idle"]
    /\ target_paths' = [target_paths EXCEPT ![h] = {}]
    /\ UNCHANGED <<globus_df, local_paths>>
    /\ UNCHANGED <<descriptionVars, getVars, serverVars, sdscVars, awsVars,
                   setup_result>>

RECURSIVE unlink_each(_, _)

\* for file in paths: os.unlink(file), on the files that exist: the files
\* left, and how the loop ended.
unlink_each(paths, files) ==
    IF paths = <<>> THEN [files |-> files, out |-> PyNone]
    ELSE IF Head(paths) \notin files
    THEN [files |-> files, out |-> Raised("FileNotFoundError")]
    ELSE unlink_each(Tail(paths), files \ {Head(paths)})

GlobusCleanUp(h) ==
    /\ globus_pc[h] = "idle"
    /\ LET r == unlink_each(local_paths[h], local_files)
           deleted == local_files \ r.files
       IN /\ local_files' = r.files
          /\ space_free' = space_free + Cardinality(deleted)
          /\ downloaded' = [q \in Handlers |-> downloaded[q] \ deleted]
          /\ globus_result' = [called |-> TRUE, h |-> h, fn |-> "cleanUp",
                               deleted |-> deleted, owned |-> downloaded[h],
                               out |-> r.out]
    /\ UNCHANGED <<globus_df, globus_pc, local_paths, target_paths>>
    /\ UNCHANGED <<descriptionVars, getVars, serverVars, sdscVars, awsVars,
                   setup_result>>

InitGlobus ==
    /\ DescriptionIdle /\ GetIdle /\ ServerIdle /\ SDSCIdle /\ AwsIdle
    /\ setup_result = NotCalled
    /\ globus_df \in SUBSET Inputs
    /\ local_files \in SUBSET Inputs
    /\ space_free \in 0..MaxSpace
    /\ globus_pc = [h \in Handlers |-> "idle"]
    /\ local_paths = [h \in Handlers |-> <<>>]
    /\ target_paths = [h \in Handlers |-> {}]
    /\ downloaded = [h \in Handlers |-> {}]
    /\ globus_result = NotCalled
NextGlobus == \E h \in Handlers : GlobusSetUp(h) \/ GlobusMv(h) \/ GlobusCleanUp(h)
SpecGlobus == InitGlobus /\ [][NextGlobus]_vars

\* The latest step of a ServerGlobusDataHandler was of fn.
GlobusDid(fn) == globus_result # NotCalled /\ globus_result.fn = fn

\* C31: setUp requests no transfer when the free space is below the minimum;
\* otherwise it requests the transfer of exactly the matched datasets that
\* are not on the local disk.
C31_TransferOnlyMissingWithSpace ==
    GlobusDid("setUp") =>
        LET h == globus_result.h
            wanted == IF space_free < MinSpaceFree THEN {}
                      ELSE globus_df \ local_files
        IN /\ globus_result.requested = wanted
           /\ target_paths[h] = wanted
           /\ (globus_pc[h] = "moving") = (wanted # {})

\* Two datasets are matched, one is on the disk: the other alone is asked for.
C31_Witness ==
    /\ GlobusDid("setUp")
    /\ Cardinality(globus_df) = 2
    /\ Cardinality(globus_df \cap local_files) = 1
    /\ globus_result.requested = globus_df \ local_files
    /\ globus_pc[globus_result.h] = "moving"

\* C32: cleanUp deletes only files that a transfer of this handler's setUp
\* put on the disk: a file that was there before setUp is never deleted.
C32_DeletesOnlyItsDownloads ==
    GlobusDid("cleanUp") => globus_result.deleted \subseteq globus_result.owned

\* C37: the check of the free space looks at the disk alone: a setUp that
\* finds the space at or above the minimum and a dataset to fetch starts its
\* transfer although the transfer of another task is under way.
C37_CheckNotCoordinated ==
    (/\ GlobusDid("setUp")
     /\ \E q \in Handlers \ {globus_result.h} : globus_pc[q] = "moving"
     /\ space_free >= MinSpaceFree
     /\ globus_df \ local_files # {}) =>
        globus_pc[globus_result.h] = "moving"

\* Both tasks found the space sufficient and both transfers are under way.
C37_Witness ==
    /\ \A h \in Handlers : globus_pc[h] = "moving"
    /\ space_free >= MinSpaceFree
    /\ GlobusDid("setUp")

\* C38: cleanUp ends without error whatever setUp and cleanUp calls came
\* before, and after a setUp every path of self.local_paths is a file that
\* exists.
C38_StagedFilesReleased ==
    /\ GlobusDid("cleanUp") => globus_result.out = PyNone
    /\ GlobusDid("mv") => Range(local_paths[globus_result.h]) \subseteq local_files

---------------------------------------------------------------------------
(* RemoteAwsDataHandler: setUp, uploadData and cleanUp on one handler. The *)
(* outputs are the Artifacts, their file records on the remote store carry *)
(* the exists flag.                                                        *)

\* The byte sizes a file may have, and what globus.ls lists under the name
\* of a file in its collection: the sizes of the entries of that name, in
\* the order of the listing.
Sizes == {1, 2}
Listings == {<<>>, <<1>>, <<2>>, <<2, 1>>}

\* self.task.status: 0 for a task that completed, -1 for one that failed,
\* -3 for one that did not finish.
Statuses == {0, -1, -3}

\* The entry of self.local_paths for a dataset that was not fetched.
NoPath == "None"

\* As SizeMatches, any file of the name being enough.
SizeMatchesAnyFound(listed, size) == listed # <<>>

\* idx = file_names.index(name); file_sizes[idx] == details['size']
SizeMatches(listed, size) == listed # <<>> /\ listed[1] = size

\* The latest call on the handler was of fn.
AwsDid(fn) == aws_result # NotCalled /\ aws_result.fn = fn

\* The loop of lines 328-342 over zip(response, outputs): the exists flag of
\* each output is set to false; an entry that is None ends the loop.
RECURSIVE flags_reset(_, _, _)
flags_reset(response, outputs, flags) ==
    IF response = <<>> \/ outputs = <<>> THEN [flags |-> flags, out |-> PyNone]
    ELSE IF Head(response) = PyNone
    THEN [flags |-> flags, out |-> Raised("TypeError")]
    ELSE flags_reset(Tail(response), Tail(outputs),
                     [flags EXCEPT ![Head(outputs)] = FALSE])

\* One call of uploadData is followed.
AwsUploadData ==
    /\ aws_result = NotCalled
    /\ \E outputs \in OutputLists, size \in Sizes, listing \in [Artifacts -> Listings],
          moved \in BOOLEAN :
           \E response \in register_dataset(outputs, FALSE) :
               LET reset == IF response.t = "list"
                            THEN flags_reset(response.v, outputs, file_exists)
                            ELSE [flags |-> file_exists,
                                  out |-> IF response = PyNone THEN Raised("TypeError")
                                          ELSE response]
                   failed == reset.out # PyNone \/ ~moved
               IN /\ file_exists' =
                         IF failed THEN reset.flags
                         ELSE [f \in Artifacts |->
                                   IF f \in Range(outputs)
                                   THEN SizeMatches(listing[f], size)
                                   ELSE reset.flags[f]]
                  /\ aws_result' =
                         [called |-> TRUE, fn |-> "uploadData", outputs |-> outputs,
                          size |-> size, listing |-> listing, response |-> response,
                          moved |-> moved,
                          out |-> IF reset.out # PyNone THEN reset.out
                                  ELSE IF ~moved THEN Raised("GlobusTransferError")
                                  ELSE response]
    /\ UNCHANGED <<aws_local_paths, task_status, local_files>>
    /\ UNCHANGED <<globus_df, space_free, globus_pc, local_paths, target_paths,
                   downloaded, globus_result, setup_result>>
    /\ UNCHANGED <<descriptionVars, getVars, serverVars, sdscVars>>

\* self.local_paths = self.one._download_aws(...): it raises, or it gives one
\* entry for each row of df, the local path of the dataset, which is on the
\* disk by then, or None.
AwsSetUp ==
    /\ \E df \in SUBSET Inputs, fetched \in SUBSET Inputs, raises \in BOOLEAN :
           LET rows == SelectSeq(InputOrder, LAMBDA f : f \in df)
               paths == [i \in DOMAIN rows |->
                             IF rows[i] \in fetched THEN rows[i] ELSE NoPath]
           IN /\ fetched \subseteq df
              /\ local_files' = local_files \cup fetched
              /\ aws_local_paths' = IF raises THEN aws_local_paths ELSE paths
              /\ aws_result' = [called |-> TRUE, fn |-> "setUp", df |-> df,
                                out |-> IF raises THEN Raised("HTTPError")
                                        ELSE PyNone]
    /\ UNCHANGED <<file_exists, task_status>>
    /\ UNCHANGED <<globus_df, space_free, globus_pc, local_paths, target_paths,
                   downloaded, globus_result, setup_result>>
    /\ UNCHANGED <<descriptionVars, getVars, serverVars, sdscVars>>

\* As ShouldUnlink, whatever the status.
ShouldUnlinkAlways(status) == TRUE

\* if self.task.status == 0
ShouldUnlink(status) == status = 0

AwsCleanUp ==
    /\ LET r == IF ShouldUnlink(task_status)
                THEN unlink_each(aws_local_paths, local_files)
                ELSE [files |-> local_files, out |-> PyNone]
       IN /\ local_files' = r.files
          /\ aws_result' = [called |-> TRUE, fn |-> "cleanUp",
                            deleted |-> local_files \ r.files, out |-> r.out]
    /\ UNCHANGED <<file_exists, aws_local_paths, task_status>>
    /\ UNCHANGED <<globus_df, space_free, globus_pc, local_paths, target_paths,
                   downloaded, globus_result, setup_result>>
    /\ UNCHANGED <<descriptionVars, getVars, serverVars, sdscVars>>

\* The handler but for its disk, its task and its file records.
AwsRest ==
    /\ DescriptionIdle /\ GetIdle /\ ServerIdle /\ SDSCIdle
    /\ setup_result = NotCalled
    /\ globus_df = {}
    /\ space_free = 0
    /\ globus_pc = [h \in Handlers |-> "idle"]
    /\ local_paths = [h \in Handlers |-> <<>>]
    /\ target_paths = [h \in Handlers |-> {}]
    /\ downloaded = [h \in Handlers |-> {}]
    /\ globus_result = NotCalled
    /\ aws_local_paths = <<>>
    /\ aws_result = NotCalled

\* setUp and cleanUp in any order, whatever the status of the task.
InitAws ==
    /\ AwsRest
    /\ local_files \in SUBSET Inputs
    /\ file_exists = <<>>
    /\ task_status \in Statuses
NextAws == AwsSetUp \/ AwsCleanUp
SpecAws == InitAws /\ [][NextAws]_vars

\* uploadData, whatever the exists flags were.
InitAwsUpload ==
    /\ AwsRest
    /\ local_files = {}
    /\ file_exists \in [Artifacts -> BOOLEAN]
    /\ task_status = 0
NextAwsUpload == AwsUploadData
SpecAwsUpload == InitAwsUpload /\ [][NextAwsUpload]_vars

\* C33: after an uploadData whose outputs were all registered, the file
\* record of an output is marked exists=true only if the transfer was made
\* and the listing of its collection has a file of its name whose size is
\* the registered size; once the transfer is made the call returns, whether
\* or not the files are listed with that size.
C33_ExistsOnlyOnSizeMatch ==
    AwsDid("uploadData") =>
        LET registered_all ==
                /\ aws_result.response.t = "list"
                /\ \A i \in DOMAIN aws_result.response.v :
                       aws_result.response.v[i] # PyNone
        IN registered_all =>
               /\ aws_result.moved => aws_result.out = aws_result.response
               /\ \A f \in Range(aws_result.outputs) :
                      file_exists[f] =>
                          /\ aws_result.moved
                          /\ \E i \in DOMAIN aws_result.listing[f] :
                                 aws_result.listing[f][i] = aws_result.size

\* Two outputs, one listed with the registered size and one with another
\* size: the call returns, only the first is marked.
C33_Witness ==
    /\ AwsDid("uploadData")
    /\ aws_result.out.t = "list"
    /\ \E f, g \in Range(aws_result.outputs) :
           /\ aws_result.listing[f] = <<aws_result.size>>
           /\ aws_result.listing[g] # <<>>
           /\ aws_result.listing[g][1] # aws_result.size
           /\ file_exists[f]
           /\ ~file_exists[g]

\* C34: cleanUp deletes files only when the status of the task is 0; with
\* any other status it deletes nothing and returns.
C34_DeletesOnlyOnSuccess ==
    AwsDid("cleanUp") =>
        /\ aws_result.deleted # {} => task_status = 0
        /\ task_status # 0 => aws_result.deleted = {} /\ aws_result.out = PyNone
        /\ (task_status = 0 /\ aws_result.out = PyNone) =>
               Range(aws_local_paths) \cap local_files = {}

\* The task completed and the files setUp fetched are deleted.
C34_Witness ==
    /\ AwsDid("cleanUp")
    /\ task_status = 0
    /\ aws_result.deleted = Inputs
    /\ Range(aws_local_paths) = Inputs

---------------------------------------------------------------------------
(* setUp and getData of the backends whose setUp resolves the inputs with  *)
(* the registry client or not at all: LocalDataHandler, ServerDataHandler, *)
(* RemoteHttpDataHandler and RemoteAwsDataHandler.                         *)

Backends == {"Local", "Server", "RemoteHttp", "RemoteAws"}

\* The filename patterns of the input signatures, and the datasets of the
\* session that filter_datasets finds for each with wildcards=True; no
\* dataset of the session is an lf file.
Patterns == {"ephysData.ap.cbin", "ephysData.ap.meta", "ephysData.ap.*",
             "ephysData.lf.cbin"}
filter_datasets(session_datasets, filename) ==
    SelectSeq(InputOrder,
              LAMBDA f : /\ f \in session_datasets
                         /\ filename \in {f, "ephysData.ap.*"})

\* signature['input_files']: the pattern of each entry and whether the
\* entry is mandatory.
Signatures == Lists([filename : Patterns, required : BOOLEAN])

\* The entries of the signature that are mandatory and match no dataset.
Unresolved(signature, session_datasets) ==
    {i \in DOMAIN signature :
         /\ signature[i].required
         /\ filter_datasets(session_datasets, signature[i].filename) = <<>>}

\* pd.concat(dfs)
RECURSIVE concat(_)
concat(dfs) == IF dfs = <<>> THEN <<>> ELSE Head(dfs) \o concat(Tail(dfs))

\* As getData, a mandatory entry that matches no dataset being an error.
getData_Strict(has_one, signature, session_datasets) ==
    IF ~has_one THEN PyNone
    ELSE IF Unresolved(signature, session_datasets) # {}
    THEN Raised("ALFObjectNotFound")
    ELSE List(concat([i \in DOMAIN signature |->
                          filter_datasets(session_datasets, signature[i].filename)]))

\* getData: None without a ONE instance, else the rows that the entries of
\* the signature match, entry after entry.
getData(has_one, signature, session_datasets) ==
    IF ~has_one THEN PyNone
    ELSE List(concat([i \in DOMAIN signature |->
                          filter_datasets(session_datasets, signature[i].filename)]))

\* The latest call on the handler was of fn.
SetUpDid(fn) == setup_result # NotCalled /\ setup_result.fn = fn

\* What marks a call: the backend, the ONE instance, the signature and the
\* catalog of the session, and the state before the call.
CallOf(fn, b, has_one, signature, session_datasets) ==
    [called |-> TRUE, fn |-> fn, backend |-> b, has_one |-> has_one,
     signature |-> signature, session_datasets |-> session_datasets,
     files_before |-> local_files, paths_before |-> aws_local_paths]

\* handler.getData() on a handler of any backend.
CallGetData ==
    /\ setup_result = NotCalled
    /\ \E b \in Backends, has_one \in BOOLEAN, signature \in Signatures,
          session_datasets \in SUBSET Inputs :
           setup_result' =
               CallOf("getData", b, has_one, signature, session_datasets) @@
               [client_fails |-> FALSE,
                out |-> getData(has_one, signature, session_datasets)]
    /\ UNCHANGED <<local_files, aws_local_paths>>
    /\ UNCHANGED <<globus_df, space_free, globus_pc, local_paths, target_paths,
                   downloaded, globus_result, file_exists, task_status, aws_result>>
    /\ UNCHANGED <<descriptionVars, getVars, serverVars, sdscVars>>

\* handler.setUp(): DataHandler.setUp for the Local and the Server handler,
\* the call of the client on the rows of getData for the other two; the
\* client raises or leaves the datasets of the rows on the disk.
CallSetUp ==
    /\ setup_result = NotCalled
    /\ \E b \in Backends, has_one \in BOOLEAN, signature \in Signatures,
          session_datasets \in SUBSET Inputs, client_fails \in BOOLEAN :
           LET call == CallOf("setUp", b, has_one, signature, session_datasets)
               df == getData(has_one, signature, session_datasets)
               done(out) == setup_result' =
                                call @@ [client_fails |-> client_fails, out |-> out]
           IN IF b \in {"Local", "Server"}
              THEN /\ done(PyNone)
                   /\ UNCHANGED <<local_files, aws_local_paths>>
              ELSE IF df.t = "raised"
              THEN /\ done(df)
                   /\ UNCHANGED <<local_files, aws_local_paths>>
              ELSE IF ~has_one
              THEN /\ done(Raised("AttributeError"))
                   /\ UNCHANGED <<local_files, aws_local_paths>>
              ELSE IF client_fails
              THEN /\ done(Raised("HTTPError"))
                   /\ UNCHANGED <<local_files, aws_local_paths>>
              ELSE /\ done(PyNone)
                   /\ local_files' = local_files \cup Range(df.v)
                   /\ aws_local_paths' =
                          IF b = "RemoteAws" THEN df.v ELSE aws_local_paths
    /\ UNCHANGED <<globus_df, space_free, globus_pc, local_paths, target_paths,
                   downloaded, globus_result, file_exists, task_status, aws_result>>
    /\ UNCHANGED <<descriptionVars, getVars, serverVars, sdscVars>>

\* One call on a handler, whatever is on the disk.
InitSetUp ==
    /\ DescriptionIdle /\ GetIdle /\ ServerIdle /\ SDSCIdle /\ AwsIdle
    /\ setup_result = NotCalled
    /\ globus_df = {}
    /\ space_free = 0
    /\ globus_pc = [h \in Handlers |-> "idle"]
    /\ local_paths = [h \in Handlers |-> <<>>]
    /\ target_paths = [h \in Handlers |-> {}]
    /\ downloaded = [h \in Handlers |-> {}]
    /\ globus_result = NotCalled
    /\ local_files \in SUBSET Inputs
NextSetUp == CallGetData \/ CallSetUp
SpecSetUp == InitSetUp /\ [][NextSetUp]_vars

\* C36: getData raises for no signature, a mandatory entry that matches no
\* dataset included; setUp of the Local and of the Server handler returns
\* and leaves the disk and the handler as they were; setUp of the RemoteHttp
\* and of the RemoteAws handler raises the error of the client when the
\* client raises.
C36_MissingInputsByBackend ==
    /\ SetUpDid("getData") => setup_result.out.t # "raised"
    /\ (SetUpDid("setUp") /\ setup_result.backend \in {"Local", "Server"}) =>
           /\ setup_result.out = PyNone
           /\ local_files = setup_result.files_before
           /\ aws_local_paths = setup_result.paths_before
    /\ (/\ SetUpDid("setUp")
        /\ setup_result.backend \in {"RemoteHttp", "RemoteAws"}
        /\ setup_result.has_one
        /\ setup_result.client_fails) =>
           setup_result.out = Raised("HTTPError")

\* The signature has a mandatory entry that matches no dataset and one that
\* matches: setUp of the RemoteHttp handler raises the error of the client.
C36_Witness ==
    /\ SetUpDid("setUp")
    /\ setup_result.backend = "RemoteHttp"
    /\ Unresolved(setup_result.signature, setup_result.session_datasets) # {}
    /\ getData(TRUE, setup_result.signature, setup_result.session_datasets)
           # List(<<>>)
    /\ setup_result.client_fails
    /\ setup_result.out = Raised("HTTPError")

=============================================================================
